---- MODULE Spec2Model ----
(***************************************************************************)
(* A model of nat20: the message codec (nat20/msglib.py and                *)
(* nat20/messages.py), the link's waiter/subscriber dispatch               *)
(* (nat20/link.py) and the device facade's connection handling             *)
(* (nat20/__init__.py).                                                    *)
(***************************************************************************)
EXTENDS Integers, Sequences, FiniteSets, TLC

VARIABLES
    (* codec harness: one message or one buffer pushed through pack/unpack *)
    cmode, cmsg, cblob, cpacked, cdecoded, cstage, wire,
    (* the registry while classes are being defined *)
    _messages, defined, define_error,
    (* link: PixelLink._wait_queue and _message_handlers, the futures and  *)
    (* the callers suspended on them, and the history of what was delivered *)
    _wait_queue, _message_handlers, fut_state, fut_result, caller_pc,
    caller_result, written, invoked, arrivals, last_dispatch, recv_error,
    registered, waiter_msgs, recv_log,
    (* facade: Pixel's connection handling *)
    _expected_disconnect, conn, connecting_for, disconnected_handlers, scope_pc,
    pending_drops, pending_reconnects, auto_connects, emitted, drop_log,
    disconnect_called,
    (* discovery: one advertisement through ScanResult._construct, and one *)
    (* call of scan_for_dice with its scanner, queue and consumer          *)
    adv, adv_result,
    scan_pc, scan_exit, scan_starts, scan_stops, scan_q, scan_yielded,
    scan_seen, detect_error,
    \* the facade's cached fields and its data_changed event
    pixel_pc, pixel_sent, pixel_resp, cache, data_changed,
    \* its display name, the value a request returned, the events it
    \* re-published and the acknowledgements written for each prompt
    pixel_name, new_name, pixel_ret, published, prompt_acks,
    \* two facades side by side, each with its link's tables
    sessions,
    \* one kind of state (roll, battery) asked for and broadcast at once
    get_pc, get_fut, fresh, latest, inbound_n,
    \* two calls of scan_for_dice side by side
    scans,
    \* one call of Pixel.blink: its arguments, the writes and the BlinkAck waiters
    blink_pc, blink_args, blink_wire, blink_queue, blink_err

codec_vars == <<cmode, cmsg, cblob, cpacked, cdecoded, cstage, wire>>
registry_vars == <<_messages, defined, define_error>>
link_vars == <<_wait_queue, _message_handlers, fut_state, fut_result, caller_pc,
               caller_result, written, invoked, arrivals, last_dispatch,
               recv_error, registered, waiter_msgs, recv_log>>
facade_vars == <<_expected_disconnect, conn, connecting_for, disconnected_handlers,
                 scope_pc, pending_drops, pending_reconnects, auto_connects,
                 emitted, drop_log, disconnect_called>>
advert_vars == <<adv, adv_result>>
scan_vars == <<scan_pc, scan_exit, scan_starts, scan_stops, scan_q, scan_yielded,
               scan_seen, detect_error>>
pixel_vars == <<pixel_pc, pixel_sent, pixel_resp, cache, data_changed,
                pixel_name, new_name, pixel_ret, published, prompt_acks>>
fresh_vars == <<get_pc, get_fut, fresh, latest, inbound_n>>
scans_vars == <<scans>>
blink_vars == <<blink_pc, blink_args, blink_wire, blink_queue, blink_err>>
vars == <<codec_vars, registry_vars, link_vars, facade_vars, advert_vars, scan_vars,
          pixel_vars, sessions, fresh_vars, scans_vars, blink_vars>>

(* what the actions of one part leave alone *)
not_codec_vars == <<registry_vars, link_vars, facade_vars, advert_vars, scan_vars,
    pixel_vars, sessions, fresh_vars, scans_vars, blink_vars>>
not_registry_vars == <<codec_vars, link_vars, facade_vars, advert_vars, scan_vars,
    pixel_vars, sessions, fresh_vars, scans_vars, blink_vars>>
not_link_vars == <<codec_vars, registry_vars, facade_vars, advert_vars, scan_vars,
    pixel_vars, sessions, fresh_vars, scans_vars, blink_vars>>
not_facade_vars == <<codec_vars, registry_vars, link_vars, advert_vars, scan_vars,
    pixel_vars, sessions, fresh_vars, scans_vars, blink_vars>>
not_advert_vars == <<codec_vars, registry_vars, link_vars, facade_vars, scan_vars,
    pixel_vars, sessions, fresh_vars, scans_vars, blink_vars>>
not_scan_vars == <<codec_vars, registry_vars, link_vars, facade_vars, advert_vars,
    pixel_vars, sessions, fresh_vars, scans_vars, blink_vars>>
not_pixel_vars == <<codec_vars, registry_vars, link_vars, facade_vars, advert_vars,
    scan_vars, sessions, fresh_vars, scans_vars, blink_vars>>
not_sessions == <<codec_vars, registry_vars, link_vars, facade_vars, advert_vars,
    scan_vars, pixel_vars, fresh_vars, scans_vars, blink_vars>>
not_fresh_vars == <<codec_vars, registry_vars, link_vars, facade_vars, advert_vars, scan_vars, pixel_vars, sessions, scans_vars, blink_vars>>
not_scans_vars == <<codec_vars, registry_vars, link_vars, facade_vars, advert_vars, scan_vars, pixel_vars, sessions, fresh_vars, blink_vars>>
not_blink_vars == <<codec_vars, registry_vars, link_vars, facade_vars, advert_vars, scan_vars, pixel_vars, sessions, fresh_vars, scans_vars>>

(***************************************************************************)
(* Python values.  bool and IntEnum are ints (True == 1, OnFace == 1), so  *)
(* a value is an int, a str (a sequence of code points) or a datetime (an  *)
(* aware UTC instant, held as its epoch seconds).  An int is hi * 2^31 + n *)
(* with 0 <= n < 2^31 when hi > 0, which keeps the full 32 bits of an "L"  *)
(* item.                                                                   *)
(***************************************************************************)
PyBig(h, k) == [ty |-> "int", hi |-> h, n |-> k, s |-> <<>>]
PyInt(k) == PyBig(0, k)
PyStr(t) == [ty |-> "str", hi |-> 0, n |-> 0, s |-> t]
PyDatetime(h, k) == [ty |-> "datetime", hi |-> h, n |-> k, s |-> <<>>]

Pow256(i) == CASE i = 0 -> 1 [] i = 1 -> 256 [] i = 2 -> 65536 [] OTHER -> 16777216

(***************************************************************************)
(* struct: a format is the sequence of its items ("<" is implied: little-  *)
(* endian, no alignment), each an item code with its repeat count; the     *)
(* formats of messages.py repeat only the pad code "x".                    *)
(***************************************************************************)
Item(code) == [c |-> code, k |-> 1]
Pad(count) == [c |-> "x", k |-> count]

CodeSize(c) ==
    CASE c \in {"B", "b", "x"} -> 1
      [] c \in {"H", "h"} -> 2
      [] OTHER -> 4

(* the range struct accepts for an item code *)
InRange(c, v) ==
    CASE c = "B" -> v.hi = 0 /\ v.n >= 0 /\ v.n <= 255
      [] c = "b" -> v.hi = 0 /\ v.n >= -128 /\ v.n <= 127
      [] c = "H" -> v.hi = 0 /\ v.n >= 0 /\ v.n <= 65535
      [] c = "h" -> v.hi = 0 /\ v.n >= -32768 /\ v.n <= 32767
      [] OTHER -> v.hi \in {0, 1} /\ v.n >= 0

RECURSIVE calcsize(_)
calcsize(fmt) ==
    IF fmt = <<>> THEN 0
    ELSE CodeSize(Head(fmt).c) * Head(fmt).k + calcsize(Tail(fmt))

(* one item, little-endian, two's complement for the signed codes *)
PackItem(c, v) ==
    LET u == IF v.n < 0 THEN v.n + Pow256(CodeSize(c) - 1) * 256 ELSE v.n
    IN  [i \in 1..CodeSize(c) |->
            IF i = 4 THEN (u \div Pow256(3)) + v.hi * 128
            ELSE (u \div Pow256(i - 1)) % 256]

UnpackItem(c, bytes) ==
    LET RECURSIVE Sum(_)
        Sum(i) == IF i = 0 THEN 0
                  ELSE (IF i = 4 THEN bytes[i] % 128 ELSE bytes[i]) * Pow256(i - 1)
                       + Sum(i - 1)
        u == Sum(CodeSize(c))
        half == Pow256(CodeSize(c) - 1) * 128
    IN  IF c \in {"b", "h"} /\ u >= half THEN PyInt(u - 2 * half)
        ELSE IF c \in {"L", "I"} THEN PyBig(bytes[4] \div 128, u)
        ELSE PyInt(u)

(* struct.pack(fmt, values...): [err, bytes]; struct.error on a wrong      *)
(* count, a non-integer argument or an out-of-range one                    *)
RECURSIVE struct_pack(_, _)
struct_pack(fmt, values) ==
    IF fmt = <<>>
    THEN IF values = <<>> THEN [err |-> "none", bytes |-> <<>>]
         ELSE [err |-> "struct.error", bytes |-> <<>>]
    ELSE IF Head(fmt).c = "x"
    THEN LET rest == struct_pack(Tail(fmt), values)
         IN  IF rest.err # "none" THEN rest
             ELSE [err |-> "none",
                   bytes |-> [i \in 1..Head(fmt).k |-> 0] \o rest.bytes]
    ELSE IF values = <<>> THEN [err |-> "struct.error", bytes |-> <<>>]
    ELSE LET v == Head(values)
             c == Head(fmt).c
         IN  IF v.ty # "int" \/ ~InRange(c, v)
             THEN [err |-> "struct.error", bytes |-> <<>>]
             ELSE LET rest == struct_pack(Tail(fmt), Tail(values))
                  IN  IF rest.err # "none" THEN rest
                      ELSE [err |-> "none", bytes |-> PackItem(c, v) \o rest.bytes]

(* struct.unpack(fmt, blob): [err, values]; struct.error unless the buffer *)
(* has exactly calcsize(fmt) bytes                                         *)
RECURSIVE struct_unpack_from(_, _)
struct_unpack_from(fmt, blob) ==
    IF fmt = <<>> THEN <<>>
    ELSE LET c == Head(fmt).c
             n == CodeSize(c) * Head(fmt).k
             rest == struct_unpack_from(Tail(fmt), SubSeq(blob, n + 1, Len(blob)))
         IN  IF c = "x" THEN rest
             ELSE <<UnpackItem(c, SubSeq(blob, 1, n))>> \o rest

(* a struct_unpack that only rejects a buffer that is too long and reads   *)
(* the missing bytes of a short one as zero                                *)
struct_unpack_short_ok(fmt, blob) ==
    IF Len(blob) > calcsize(fmt)
    THEN [err |-> "struct.error", values |-> <<>>]
    ELSE [err |-> "none",
          values |-> struct_unpack_from(fmt,
                        blob \o [i \in 1..(calcsize(fmt) - Len(blob)) |-> 0])]

struct_unpack(fmt, blob) ==
    IF Len(blob) # calcsize(fmt)
    THEN [err |-> "struct.error", values |-> <<>>]
    ELSE [err |-> "none", values |-> struct_unpack_from(fmt, blob)]

(***************************************************************************)
(* str.encode('utf-8') / bytes.decode('utf-8')                             *)
(***************************************************************************)
IsSurrogate(cp) == cp >= 55296 /\ cp <= 57343

EncodeCodePoint(cp) ==
    IF cp < 128 THEN <<cp>>
    ELSE IF cp < 2048 THEN <<192 + (cp \div 64), 128 + (cp % 64)>>
    ELSE IF cp < 65536
    THEN <<224 + (cp \div 4096), 128 + ((cp \div 64) % 64), 128 + (cp % 64)>>
    ELSE <<240 + (cp \div 262144), 128 + ((cp \div 4096) % 64),
           128 + ((cp \div 64) % 64), 128 + (cp % 64)>>

RECURSIVE utf8_encode(_)
utf8_encode(t) ==
    IF t = <<>> THEN [err |-> "none", bytes |-> <<>>]
    ELSE IF IsSurrogate(Head(t)) THEN [err |-> "UnicodeEncodeError", bytes |-> <<>>]
    ELSE LET rest == utf8_encode(Tail(t))
         IN  IF rest.err # "none" THEN rest
             ELSE [err |-> "none", bytes |-> EncodeCodePoint(Head(t)) \o rest.bytes]

IsCont(b, i) == i <= Len(b) /\ b[i] >= 128 /\ b[i] <= 191

RECURSIVE utf8_decode(_)
utf8_decode(b) ==
    IF b = <<>> THEN [err |-> "none", s |-> <<>>]
    ELSE
      LET b0 == b[1]
          n == IF b0 < 128 THEN 1
               ELSE IF b0 >= 194 /\ b0 <= 223 THEN 2
               ELSE IF b0 >= 224 /\ b0 <= 239 THEN 3
               ELSE IF b0 >= 240 /\ b0 <= 244 THEN 4
               ELSE 0
          wellformed == n > 0 /\ \A i \in 2..n : IsCont(b, i)
          cp == CASE n = 1 -> b0
                  [] n = 2 -> (b0 - 192) * 64 + (b[2] - 128)
                  [] n = 3 -> (b0 - 224) * 4096 + (b[2] - 128) * 64 + (b[3] - 128)
                  [] OTHER -> (b0 - 240) * 262144 + (b[2] - 128) * 4096
                              + (b[3] - 128) * 64 + (b[4] - 128)
          bad == [err |-> "UnicodeDecodeError", s |-> <<>>]
      IN  IF ~wellformed THEN bad
          ELSE IF (n = 3 /\ (cp < 2048 \/ IsSurrogate(cp)))
                  \/ (n = 4 /\ (cp < 65536 \/ cp > 1114111)) THEN bad
          ELSE LET rest == utf8_decode(SubSeq(b, n + 1, Len(b)))
               IN  IF rest.err # "none" THEN rest
                   ELSE [err |-> "none", s |-> <<cp>> \o rest.s]

(***************************************************************************)
(* The message classes of nat20/messages.py.  A class is its base (kind),  *)
(* its struct format, its dataclass fields (their declared types, in       *)
(* order) and the conversions its own __struct_unpack__ adds.              *)
(***************************************************************************)
EmptyMessageIds == {0, 1, 23, 30, 33, 37, 52, 59, 60, 66}
StrMessageIds == {18, 51}
RegisteredIds == 0..78

MessageClass(id) ==
    CASE id \in EmptyMessageIds -> [kind |-> "Empty", fmt |-> <<>>, ftypes |-> <<>>]
      [] id \in StrMessageIds -> [kind |-> "Str", fmt |-> <<>>, ftypes |-> <<"str">>]
      [] id = 2 -> [kind |-> "Basic",
                    fmt |-> <<Item("B"), Item("B"), Pad(1), Item("L"), Item("L"), Item("H"), Item("L"), Item("B"), Item("B"), Item("B"), Item("B")>>,
                    ftypes |-> <<"int", "DesignAndColor", "int", "int", "int",
                                 "datetime", "RollState_State", "int", "int",
                                 "BatteryState">>]
      [] id = 3 -> [kind |-> "Basic", fmt |-> <<Item("B"), Item("B")>>,
                    ftypes |-> <<"RollState_State", "int">>]
      [] id = 4 -> [kind |-> "Basic",
                    fmt |-> <<Pad(50), Item("B"), Item("B"), Item("B"), Item("B"), Item("b"), Item("B"), Item("h"), Item("h"), Item("B"), Item("B")>>,
                    ftypes |-> <<"int", "BatteryState", "int", "int", "int", "int",
                                 "int", "int", "int", "int">>]
      [] id \in {19, 20} -> [kind |-> "Basic", fmt |-> <<Item("B"), Item("B"), Item("B")>>,
                             ftypes |-> <<"int", "int", "int">>]
      [] id \in {21, 65} -> [kind |-> "Basic", fmt |-> <<Item("B"), Item("B")>>,
                             ftypes |-> <<"int", "int">>]
      [] id = 22 -> [kind |-> "Basic", fmt |-> <<Item("H")>>, ftypes |-> <<"int">>]
      [] id = 29 -> [kind |-> "Basic", fmt |-> <<Item("B"), Item("H"), Item("L"), Item("L"), Item("B"), Item("B")>>,
                     ftypes |-> <<"int", "int", "int", "int", "int", "int">>]
      [] id = 34 -> [kind |-> "Basic", fmt |-> <<Item("B"), Item("B")>>,
                     ftypes |-> <<"int", "BatteryState">>]
      [] id = 35 -> [kind |-> "Basic", fmt |-> <<Item("B"), Item("H")>>,
                     ftypes |-> <<"RequestMode", "int">>]
      [] id = 36 -> [kind |-> "Basic", fmt |-> <<Item("b")>>, ftypes |-> <<"int">>]
      [] id = 38 -> [kind |-> "Basic", fmt |-> <<Item("B")>>, ftypes |-> <<"int">>]
      [] id = 39 -> [kind |-> "Basic", fmt |-> <<Item("B"), Item("B"), Item("B")>>,
                     ftypes |-> <<"int", "bool", "bool", "str">>]
      [] id = 40 -> [kind |-> "Basic", fmt |-> <<Item("B")>>, ftypes |-> <<"OkCancel">>]
      [] id = 61 -> [kind |-> "Basic", fmt |-> <<Item("h"), Item("h")>>, ftypes |-> <<"int", "int">>]
      [] OTHER -> [kind |-> "Basic", fmt |-> <<>>, ftypes |-> <<>>]

(* the largest member of an IntEnum of messages.py (all start at 0, dense) *)
EnumMax(t) ==
    CASE t = "RollState_State" -> 4
      [] t = "BatteryState" -> 5
      [] t = "DesignAndColor" -> 12
      [] t = "RequestMode" -> 2
      [] OTHER -> 1

(* the fields a class's own __struct_unpack__ converts after the base one: *)
(* <<field index, conversion>>, in the order the code applies them         *)
Conversions(id) ==
    CASE id = 2 -> <<<<7, "RollState_State">>, <<10, "BatteryState">>,
                     <<2, "DesignAndColor">>, <<6, "datetime">>>>
      [] id = 3 -> <<<<1, "RollState_State">>>>
      [] id = 34 -> <<<<2, "BatteryState">>>>
      [] id = 35 -> <<<<1, "RequestMode">>>>
      [] id = 39 -> <<<<2, "bool">>, <<3, "bool">>>>
      [] id = 40 -> <<<<1, "OkCancel">>>>
      [] OTHER -> <<>>

NoMsg == [cls |-> -1, fields |-> <<>>]
Raise(e) == [err |-> e, msg |-> NoMsg]
Return(m) == [err |-> "none", msg |-> m]

(* Enum(value), bool(value), datetime.fromtimestamp(value, tz=utc) *)
Convert(t, v) ==
    CASE t = "bool" -> [err |-> "none", v |-> PyInt(IF v.n = 0 /\ v.hi = 0 THEN 0 ELSE 1)]
      [] t = "datetime" -> [err |-> "none", v |-> PyDatetime(v.hi, v.n)]
      [] OTHER -> IF v.hi = 0 /\ v.n >= 0 /\ v.n <= EnumMax(t)
                  THEN [err |-> "none", v |-> v]
                  ELSE [err |-> "ValueError", v |-> v]

RECURSIVE ApplyConversions(_, _)
ApplyConversions(convs, m) ==
    IF convs = <<>> THEN Return(m)
    ELSE LET i == Head(convs)[1]
             r == Convert(Head(convs)[2], m.fields[i])
         IN  IF r.err # "none" THEN Raise(r.err)
             ELSE ApplyConversions(Tail(convs), [m EXCEPT !.fields[i] = r.v])

(* _str_field_name: the last dataclass field, if it is declared str *)
_str_field_name(cls) ==
    IF cls.ftypes = <<>> THEN [err |-> "IndexError", str |-> FALSE]
    ELSE [err |-> "none", str |-> cls.ftypes[Len(cls.ftypes)] = "str"]

(* cls(fields...): the dataclass constructor takes one argument per field *)
Construct(id, values) ==
    IF Len(values) # Len(MessageClass(id).ftypes) THEN Raise("TypeError")
    ELSE Return([cls |-> id, fields |-> values])

BasicMessage_struct_unpack(id, blob) ==
    LET cls == MessageClass(id)
        sfld == _str_field_name(cls)
        l == calcsize(cls.fmt)
        cut == IF l < Len(blob) THEN l ELSE Len(blob)
        head == IF sfld.str THEN SubSeq(blob, 1, cut) ELSE blob
        bin == IF sfld.str THEN SubSeq(blob, cut + 1, Len(blob)) ELSE <<>>
        fields == struct_unpack(cls.fmt, head)
        text == utf8_decode(bin)
    IN  IF sfld.err # "none" THEN Raise(sfld.err)
        ELSE IF fields.err # "none" THEN Raise(fields.err)
        ELSE IF ~sfld.str THEN Construct(id, fields.values)
        ELSE IF text.err # "none" THEN Raise(text.err)
        ELSE Construct(id, fields.values \o <<PyStr(text.s)>>)

StrMessage_struct_unpack(id, blob) ==
    LET text == utf8_decode(blob)
    IN  IF text.err # "none" THEN Raise(text.err)
        ELSE Return([cls |-> id, fields |-> <<PyStr(text.s)>>])

EmptyMessage_struct_unpack(id, blob) == Return([cls |-> id, fields |-> <<>>])

(* msgcls.__struct_unpack__(blob), with the class's own conversions *)
cls_struct_unpack(id, blob) ==
    LET kind == MessageClass(id).kind
        base == CASE kind = "Empty" -> EmptyMessage_struct_unpack(id, blob)
                  [] kind = "Str" -> StrMessage_struct_unpack(id, blob)
                  [] OTHER -> BasicMessage_struct_unpack(id, blob)
    IN  IF base.err # "none" THEN base
        ELSE ApplyConversions(Conversions(id), base.msg)

(* msg.__struct_pack__() *)
msg_struct_pack(m) ==
    LET cls == MessageClass(m.cls)
        sfld == _str_field_name(cls)
        n == Len(m.fields)
        last == m.fields[n]
        text == IF last.ty = "str" THEN utf8_encode(last.s)
                ELSE [err |-> "AttributeError", bytes |-> <<>>]
        prefix == struct_pack(cls.fmt, SubSeq(m.fields, 1, n - 1))
    IN  CASE cls.kind = "Empty" -> [err |-> "none", bytes |-> <<>>]
          [] cls.kind = "Str" -> text
          [] OTHER ->
               IF sfld.err # "none" THEN [err |-> sfld.err, bytes |-> <<>>]
               ELSE IF ~sfld.str THEN struct_pack(cls.fmt, m.fields)
               ELSE IF prefix.err # "none" THEN prefix
               ELSE IF text.err # "none" THEN text
               ELSE [err |-> "none", bytes |-> prefix.bytes \o text.bytes]

(* msgid(msg): a message of a class that was given no id has none *)
msgid(m) ==
    IF m.cls \in RegisteredIds THEN [err |-> "none", id |-> m.cls]
    ELSE [err |-> "AbstractMessageGivenError", id |-> -1]

pack(m) ==
    LET id == msgid(m)
        body == msg_struct_pack(m)
    IN  IF id.err # "none" THEN [err |-> id.err, bytes |-> <<>>]
        ELSE IF body.err # "none" THEN body
        ELSE [err |-> "none", bytes |-> <<id.id>> \o body.bytes]

(* msgid of nat20/link.py, as _send calls it: the attribute is read with   *)
(* nothing catching its absence                                            *)
link_msgid(m) ==
    IF m.cls \in RegisteredIds THEN [err |-> "none", id |-> m.cls]
    ELSE [err |-> "AttributeError", id |-> -1]

(* the blob _send builds before it writes *)
link_blob(m) ==
    LET id == link_msgid(m)
        body == msg_struct_pack(m)
    IN  IF id.err # "none" THEN [err |-> id.err, bytes |-> <<>>]
        ELSE IF body.err # "none" THEN body
        ELSE [err |-> "none", bytes |-> <<id.id>> \o body.bytes]

(* a lookup that never misses (a table with a default entry) *)
Lookup_no_KeyError(id) == "found"

(* the lookup _messages[msgid] of unpack: KeyError for an id never registered *)
Lookup(id) == IF id \in RegisteredIds THEN "found" ELSE "KeyError"

unpack(blob) ==
    IF blob = <<>> THEN Raise("IndexError")
    ELSE IF Lookup(blob[1]) = "KeyError" THEN Raise("UnrecognizedMessageError")
    ELSE LET r == cls_struct_unpack(blob[1], Tail(blob))
         IN  IF r.err # "none" THEN Raise("UnpackError") ELSE r

(***************************************************************************)
(* Codec harness: a message is packed and the packet unpacked again, or a  *)
(* buffer is unpacked.                                                     *)
(***************************************************************************)
MaxPayloadLen == 63

FillBytes == {0, 1, 2, 200}

SampleStrings == {<<>>, <<72, 105>>, <<233, 8364, 128512>>}

(* valid values of a field, by declared type and item code *)
FieldValues(t, c) ==
    CASE t = "str" -> {PyStr(x) : x \in SampleStrings}
      [] t = "datetime" -> {PyDatetime(0, 1686669079), PyDatetime(1, 0)}
      [] t = "bool" -> {PyInt(0), PyInt(1)}
      [] t # "int" -> {PyInt(0), PyInt(EnumMax(t))}
      [] c = "B" -> {PyInt(0), PyInt(255)}
      [] c = "b" -> {PyInt(-128), PyInt(127)}
      [] c = "H" -> {PyInt(258), PyInt(65535)}
      [] c = "h" -> {PyInt(-32768), PyInt(258)}
      [] OTHER -> {PyInt(16909060), PyBig(1, 2147483647)}

RECURSIVE FieldTuples(_, _)
FieldTuples(ftypes, codes) ==
    IF ftypes = <<>> THEN {<<>>}
    ELSE LET c == IF codes = <<>> THEN "" ELSE Head(codes).c
             rest == IF codes = <<>> THEN <<>> ELSE Tail(codes)
         IN  {<<h>> \o t : h \in FieldValues(Head(ftypes), c),
                           t \in FieldTuples(Tail(ftypes), rest)}

ValidMessages(id) ==
    LET cls == MessageClass(id)
    IN  {[cls |-> id, fields |-> f] :
            f \in FieldTuples(cls.ftypes, SelectSeq(cls.fmt, LAMBDA it : it.c # "x"))}

(* a message of a class that was given no id: EmptyMessage() itself, or   *)
(* an instance of a subclass defined with id=None                          *)
NoIdClass == -2

AbstractMessages == {[cls |-> NoIdClass, fields |-> <<>>]}

(* the count argument of Pixel.blink: the Ellipsis (inf) or an int; the    *)
(* duration argument in milliseconds, whole seconds and halves, for which  *)
(* the float product count * duration * 1000 is exact                      *)
BlinkArgs == {[inf |-> TRUE, n |-> 0]} \cup {[inf |-> FALSE, n |-> k] : k \in {0, 1, 3, 255, 256}}
BlinkDurationsMs == {0, 125, 250, 500, 65000, 66000}

(* Pixel.blink up to its send_and_wait: the Blink message it builds *)
Pixel_blink(a, ms) ==
    LET loop == IF a.inf THEN 1 ELSE 0
        count == IF a.inf THEN 1 ELSE a.n
    IN  [cls |-> 29,
         fields |-> <<PyInt(count), PyInt(count * ms), PyInt(16711680),
                      PyInt(255), PyInt(0), PyInt(loop)>>]

InputMessages ==
    UNION {ValidMessages(id) : id \in RegisteredIds} \cup AbstractMessages
        \cup {Pixel_blink(a, ms) : a \in BlinkArgs, ms \in BlinkDurationsMs}

InputBlobs ==
    {<<>>} \cup {<<id>> \o [i \in 1..k |-> b] :
                    id \in 0..255, k \in 0..MaxPayloadLen, b \in FillBytes}

NoBytes == [err |-> "unset", bytes |-> <<>>]
NoResult == [err |-> "unset", msg |-> NoMsg]

CodecIdle ==
    /\ cmode = "off" /\ cmsg = NoMsg /\ cblob = <<>>
    /\ cpacked = NoBytes /\ cdecoded = NoResult /\ cstage = "input"
    /\ wire = <<>>

CodecInit ==
    /\ cstage = "input" /\ cpacked = NoBytes /\ cdecoded = NoResult
    /\ wire = <<>>
    /\ \/ cmode \in {"msg", "send"} /\ cmsg \in InputMessages /\ cblob = <<>>
       \/ cmode = "blob" /\ cblob \in InputBlobs /\ cmsg = NoMsg

Pack ==
    /\ cmode = "msg" /\ cstage = "input"
    /\ cpacked' = pack(cmsg)
    /\ cstage' = "packed"
    /\ UNCHANGED <<cmode, cmsg, cblob, cdecoded, wire>>

UnpackPacked ==
    /\ cmode = "msg" /\ cstage = "packed" /\ cpacked.err = "none"
    /\ cdecoded' = unpack(cpacked.bytes)
    /\ cstage' = "decoded"
    /\ UNCHANGED <<cmode, cmsg, cblob, cpacked, wire>>

Unpack ==
    /\ cmode = "blob" /\ cstage = "input"
    /\ cdecoded' = unpack(cblob)
    /\ cstage' = "decoded"
    /\ UNCHANGED <<cmode, cmsg, cblob, cpacked, wire>>

(* PixelLink._send: build the blob, then write it to the transport; the    *)
(* write returns or raises                                                 *)
Send ==
    /\ cmode = "send" /\ cstage = "input"
    /\ cstage' = "sent"
    /\ LET blob == link_blob(cmsg)
       IN  IF blob.err # "none"
           THEN cpacked' = blob /\ UNCHANGED wire
           ELSE \/ cpacked' = blob /\ wire' = Append(wire, blob.bytes)
                \/ cpacked' = [err |-> "BleakError", bytes |-> <<>>] /\ UNCHANGED wire
    /\ UNCHANGED <<cmode, cmsg, cblob, cdecoded>>

(***************************************************************************)
(* Class definition: Message.__init_subclass__ records the class under its *)
(* id.  Classes are numbered in the order they are defined; NoId is the    *)
(* id=None of an abstract class.                                           *)
(***************************************************************************)
MaxClasses == 4
MaxDefId == 2

NoId == -1
DefIds == 0..MaxDefId

RegistryIdle ==
    /\ _messages = [i \in DefIds |-> 0]
    /\ defined = <<>>
    /\ define_error = {}

RegistryInit == RegistryIdle

(* _messages[id] = cls *)
Register(table, id, cls) == [table EXCEPT ![id] = cls]

DefineClass(id) ==
    /\ Len(defined) < MaxClasses
    /\ defined' = Append(defined, id)
    /\ _messages' = IF id = NoId THEN _messages
                    ELSE Register(_messages, id, Len(defined) + 1)
    /\ UNCHANGED define_error

(***************************************************************************)
(* Link: PixelLink of nat20/link.py.  Each caller makes one call and owns  *)
(* the future of that call; an inbound message is its class and the serial *)
(* number of its arrival.                                                  *)
(***************************************************************************)
MaxCallers == 2
MaxArrivals == 2

Callers == 1..MaxCallers
MsgTypes == {"RollState", "BatteryLevel"}
Handlers == {"h1", "h2"}

NoMessage == [cls |-> "none", serial |-> 0]
NoDispatch == [msg |-> NoMessage, queue_before |-> <<>>, handlers_before |-> <<>>]

Range(q) == {q[i] : i \in 1..Len(q)}

(* callers are numbered in the order they make their call *)
IsNextCaller(c) ==
    /\ caller_pc[c] = "idle"
    /\ \A d \in Callers : d < c => caller_pc[d] # "idle"

NoNotify == [n |-> 0, packet |-> <<>>, outcome |-> "none"]

LinkIdle ==
    /\ _wait_queue = [t \in MsgTypes |-> <<>>]
    /\ _message_handlers = [t \in MsgTypes |-> <<>>]
    /\ fut_state = [c \in Callers |-> "none"]
    /\ fut_result = [c \in Callers |-> NoMessage]
    /\ caller_pc = [c \in Callers |-> "idle"]
    /\ caller_result = [c \in Callers |-> NoMessage]
    /\ written = [c \in Callers |-> 0]
    /\ invoked = {}
    /\ arrivals = 0
    /\ last_dispatch = NoDispatch
    /\ recv_error = "none"
    /\ registered = [t \in MsgTypes |-> <<>>]
    /\ waiter_msgs = [t \in MsgTypes |-> <<>>]
    /\ recv_log = NoNotify

(* PixelLink.__init__: both tables start empty *)
LinkInit == LinkIdle

(* self._wait_queue[cls].append(fut) *)
Enqueue(q, fut) == Append(q, fut)

(* the facade's self._link._message_handlers[cls].append(handler), done in *)
(* Pixel.__init__, before the link carries any traffic                      *)
AddHandler(t, h) ==
    /\ arrivals = 0
    /\ \A c \in Callers : caller_pc[c] = "idle"
    /\ \A u \in MsgTypes : h \notin Range(_message_handlers[u])
    /\ h = "h2" => \E u \in MsgTypes : "h1" \in Range(_message_handlers[u])
    /\ _message_handlers' = [_message_handlers EXCEPT ![t] = Append(@, h)]
    /\ UNCHANGED <<_wait_queue, fut_state, fut_result, caller_pc, caller_result,
                   written, invoked, arrivals, last_dispatch, recv_error,
                   registered, waiter_msgs>>

(* _wait: create the future, queue it, suspend on it *)
Wait(c, t) ==
    /\ IsNextCaller(c)
    /\ fut_state' = [fut_state EXCEPT ![c] = "pending"]
    /\ _wait_queue' = [_wait_queue EXCEPT ![t] = Enqueue(@, c)]
    /\ registered' = [registered EXCEPT ![t] = Append(@, c)]
    /\ caller_pc' = [caller_pc EXCEPT ![c] = "waiting"]
    /\ UNCHANGED <<_message_handlers, fut_result, caller_result, written, invoked,
                   arrivals, last_dispatch, recv_error, waiter_msgs>>

(* a _send_and_wait that starts the write before it queues the future *)
SendAndWait_write_first(c, t) ==
    /\ IsNextCaller(c)
    /\ fut_state' = [fut_state EXCEPT ![c] = "pending"]
    /\ caller_pc' = [caller_pc EXCEPT ![c] = "writing"]
    /\ UNCHANGED <<_wait_queue, registered, _message_handlers, fut_result,
                   caller_result, written, invoked, arrivals, last_dispatch,
                   recv_error, waiter_msgs>>

(* _send_and_wait up to the suspension inside the transport write: the     *)
(* future is created and queued, then _send starts the write               *)
SendAndWait(c, t) ==
    /\ IsNextCaller(c)
    /\ fut_state' = [fut_state EXCEPT ![c] = "pending"]
    /\ _wait_queue' = [_wait_queue EXCEPT ![t] = Enqueue(@, c)]
    /\ registered' = [registered EXCEPT ![t] = Append(@, c)]
    /\ caller_pc' = [caller_pc EXCEPT ![c] = "writing"]
    /\ UNCHANGED <<_message_handlers, fut_result, caller_result, written, invoked,
                   arrivals, last_dispatch, recv_error, waiter_msgs>>

(* a _send that writes the blob again after the first write *)
WriteDone_twice(c) ==
    /\ caller_pc[c] = "writing"
    /\ written' = [written EXCEPT ![c] = @ + 2]
    /\ caller_pc' = [caller_pc EXCEPT ![c] = "waiting"]
    /\ UNCHANGED <<_wait_queue, _message_handlers, fut_state, fut_result,
                   caller_result, invoked, arrivals, last_dispatch, recv_error,
                   registered, waiter_msgs>>

(* write_gatt_char returns: _send_and_wait goes on to await the future *)
WriteDone(c) ==
    /\ caller_pc[c] = "writing"
    /\ written' = [written EXCEPT ![c] = @ + 1]
    /\ caller_pc' = [caller_pc EXCEPT ![c] = "waiting"]
    /\ UNCHANGED <<_wait_queue, _message_handlers, fut_state, fut_result,
                   caller_result, invoked, arrivals, last_dispatch, recv_error,
                   registered, waiter_msgs>>

(* a _send_and_wait that swallows the write error and waits all the same *)
WriteFail_swallowed(c) ==
    /\ caller_pc[c] = "writing"
    /\ caller_pc' = [caller_pc EXCEPT ![c] = "waiting"]
    /\ UNCHANGED <<_wait_queue, _message_handlers, fut_state, fut_result,
                   caller_result, written, invoked, arrivals, last_dispatch,
                   recv_error, registered, waiter_msgs>>

(* write_gatt_char raises: the error leaves _send_and_wait *)
WriteFail(c) ==
    /\ caller_pc[c] = "writing"
    /\ caller_pc' = [caller_pc EXCEPT ![c] = "raised"]
    /\ UNCHANGED <<_wait_queue, _message_handlers, fut_state, fut_result,
                   caller_result, written, invoked, arrivals, last_dispatch,
                   recv_error, registered, waiter_msgs>>

(* the caller's task is cancelled (an enclosing timeout): while it awaits  *)
(* the future the future is cancelled with it; nothing touches the queue   *)
Cancel(c) ==
    /\ caller_pc[c] \in {"writing", "waiting"}
    /\ fut_state' = [fut_state EXCEPT ![c] =
                        IF caller_pc[c] = "waiting" /\ @ = "pending"
                        THEN "cancelled" ELSE @]
    /\ caller_pc' = [caller_pc EXCEPT ![c] = "cancelled"]
    /\ UNCHANGED <<_wait_queue, _message_handlers, fut_result, caller_result,
                   written, invoked, arrivals, last_dispatch, recv_error,
                   registered, waiter_msgs>>

(* a caller that is never run again once its future is resolved *)
Resume_never(c) ==
    /\ caller_pc[c] = "waiting"
    /\ fut_state[c] = "done"
    /\ UNCHANGED <<_wait_queue, _message_handlers, fut_state, fut_result, written,
                   invoked, arrivals, last_dispatch, recv_error, registered,
                   waiter_msgs, caller_pc, caller_result>>

(* return await fut *)
Resume(c) ==
    /\ caller_pc[c] = "waiting"
    /\ fut_state[c] = "done"
    /\ caller_result' = [caller_result EXCEPT ![c] = fut_result[c]]
    /\ caller_pc' = [caller_pc EXCEPT ![c] = "returned"]
    /\ UNCHANGED <<_wait_queue, _message_handlers, fut_state, fut_result, written,
                   invoked, arrivals, last_dispatch, recv_error, registered,
                   waiter_msgs>>

(* _call_or_task calls the handler where it stands, inside _dispatch, and  *)
(* wraps what the call returns in a task only when that is awaitable: a    *)
(* plain function ("h1", as the facade's _on_roll_state) has run to its    *)
(* end by then, a coroutine function ("h2") has only made its coroutine    *)
_call_or_task(h) == IF h = "h2" THEN "task" ELSE "inline"

(* a _dispatch that serves the waiter queued last *)
NextWaiter_newest(q) == q[Len(q)]

(* the waiter _dispatch takes, and what it leaves: self._wait_queue[cls].pop(0) *)
NextWaiter(q) == Head(q)
PopWaiter(q) == Tail(q)

(* a _dispatch that keeps one queue and one handler list for all classes *)
Dispatch_untyped(t) ==
    /\ arrivals < MaxArrivals
    /\ LET msg == [cls |-> t, serial |-> arrivals + 1]
           u == CHOOSE x \in MsgTypes :
                    \A y \in MsgTypes : Len(_wait_queue[x]) >= Len(_wait_queue[y])
           q == _wait_queue[u]
       IN  /\ arrivals' = arrivals + 1
           /\ last_dispatch' = [msg |-> msg, queue_before |-> q,
                                handlers_before |-> _message_handlers[t]]
           /\ IF Len(q) # 0
              THEN LET fut == NextWaiter(q)
                   IN  /\ _wait_queue' = [_wait_queue EXCEPT ![u] = PopWaiter(q)]
                       /\ waiter_msgs' = [waiter_msgs EXCEPT ![u] = Append(@, msg.serial)]
                       /\ IF fut_state[fut] = "pending"
                          THEN /\ fut_state' = [fut_state EXCEPT ![fut] = "done"]
                               /\ fut_result' = [fut_result EXCEPT ![fut] = msg]
                               /\ recv_error' = "none"
                          ELSE /\ recv_error' = "InvalidStateError"
                               /\ UNCHANGED <<fut_state, fut_result>>
                       /\ UNCHANGED invoked
              ELSE /\ invoked' = invoked \cup
                          {<<h, msg.serial>> : h \in Handlers}
                   /\ recv_error' = "none"
                   /\ UNCHANGED <<_wait_queue, waiter_msgs, fut_state, fut_result>>
    /\ UNCHANGED <<_message_handlers, caller_pc, caller_result, written, registered>>

(* _dispatch of an inbound message of class t.  fut.set_result raises      *)
(* InvalidStateError on a future that is no longer pending.                *)
Dispatch(t) ==
    /\ arrivals < MaxArrivals
    /\ LET msg == [cls |-> t, serial |-> arrivals + 1]
           q == _wait_queue[t]
       IN  /\ arrivals' = arrivals + 1
           /\ last_dispatch' = [msg |-> msg, queue_before |-> q,
                                handlers_before |-> _message_handlers[t]]
           /\ IF Len(q) # 0
              THEN LET fut == NextWaiter(q)
                   IN  /\ _wait_queue' = [_wait_queue EXCEPT ![t] = PopWaiter(q)]
                       /\ waiter_msgs' = [waiter_msgs EXCEPT ![t] = Append(@, msg.serial)]
                       /\ IF fut_state[fut] = "pending"
                          THEN /\ fut_state' = [fut_state EXCEPT ![fut] = "done"]
                               /\ fut_result' = [fut_result EXCEPT ![fut] = msg]
                               /\ recv_error' = "none"
                          ELSE /\ recv_error' = "InvalidStateError"
                               /\ UNCHANGED <<fut_state, fut_result>>
                       /\ UNCHANGED invoked
              ELSE /\ invoked' = invoked \cup
                          {<<h, msg.serial>> : h \in Range(_message_handlers[t])}
                   /\ recv_error' = "none"
                   /\ UNCHANGED <<_wait_queue, waiter_msgs, fut_state, fut_result>>
    /\ UNCHANGED <<_message_handlers, caller_pc, caller_result, written, registered>>

(* _dispatch of a message no waiter is queued for, in which the k-th       *)
(* subscriber, a plain function, raises: the error leaves _call_or_task,   *)
(* the for loop and _dispatch, and the subscribers after it are not called *)
DispatchHandlerRaises(t, k) ==
    /\ arrivals < MaxArrivals
    /\ _wait_queue[t] = <<>>
    /\ k \in 1..Len(_message_handlers[t])
    /\ _call_or_task(_message_handlers[t][k]) = "inline"
    /\ LET msg == [cls |-> t, serial |-> arrivals + 1]
       IN  /\ arrivals' = arrivals + 1
           /\ last_dispatch' = [msg |-> msg, queue_before |-> <<>>,
                                handlers_before |-> _message_handlers[t]]
           /\ invoked' = invoked \cup
                  {<<_message_handlers[t][i], msg.serial>> : i \in 1..k}
           /\ recv_error' = "HandlerError"
    /\ UNCHANGED <<_wait_queue, waiter_msgs, fut_state, fut_result, _message_handlers,
                   caller_pc, caller_result, written, registered>>

(* the ids in the _messages of nat20/link.py, the table _recv_notify       *)
(* consults: it is filled by subclasses of link.py's own Message, and the  *)
(* message classes of nat20/messages.py derive from msglib's               *)
LinkRegisteredIds == {}

link_Lookup(id) == IF id \in LinkRegisteredIds THEN "found" ELSE "KeyError"

(* type(message) of an unpacked message, as the key of the link's tables *)
ClassOf(id) == IF id = 34 THEN "BatteryLevel" ELSE "RollState"

RecvPackets ==
    {<<>>, <<255>>, <<3, 1, 1>>, <<3, 200, 1>>, <<3, 1>>, <<34, 50, 1>>, <<34, 50>>}

(* _recv_notify: split the packet, look the class up, unpack, dispatch.    *)
(* A failed lookup or unpack is logged and the packet dropped; packet[0]   *)
(* of an empty packet raises IndexError before the try.                    *)
RecvNotify(packet) ==
    /\ arrivals < MaxArrivals
    /\ packet \in RecvPackets
    /\ LET n == arrivals + 1
           drop(o) == /\ recv_log' = [n |-> n, packet |-> packet, outcome |-> o]
                      /\ arrivals' = n
                      /\ recv_error' = IF o = "raised" THEN "IndexError" ELSE "none"
                      /\ UNCHANGED <<_wait_queue, _message_handlers, fut_state,
                                     fut_result, caller_pc, caller_result, written,
                                     invoked, last_dispatch, registered, waiter_msgs>>
       IN  IF packet = <<>> THEN drop("raised")
           ELSE IF link_Lookup(packet[1]) = "KeyError" THEN drop("dropped")
           ELSE IF cls_struct_unpack(packet[1], Tail(packet)).err # "none" THEN drop("dropped")
           ELSE /\ Dispatch(ClassOf(packet[1]))
                /\ recv_log' = [n |-> n, packet |-> packet,
                                outcome |-> IF recv_error' = "none" THEN "dispatched"
                                            ELSE "raised"]

(***************************************************************************)
(* Facade: Pixel.connect / disconnect / connect_with_reconnect and the     *)
(* transport's disconnected callback, which only schedules _on_disconnect  *)
(* as a task.  A drop is remembered with its cause: "explicit" (brought    *)
(* about by disconnect()), "scoped" (the peripheral went away while the    *)
(* body of connect_with_reconnect was running) or "unscoped" (it went away *)
(* at another time).                                                       *)
(***************************************************************************)
MaxDrops == 3

Causes == {"explicit", "scoped", "unscoped"}
Zero == [k \in Causes |-> 0]
Drops == drop_log["explicit"] + drop_log["scoped"] + drop_log["unscoped"]

FacadeIdle ==
    /\ _expected_disconnect = FALSE
    /\ conn = "disconnected"
    /\ connecting_for = "none"
    /\ disconnected_handlers = {}
    /\ scope_pc = "outside"
    /\ pending_drops = <<>>
    /\ pending_reconnects = <<>>
    /\ auto_connects = Zero
    /\ emitted = Zero
    /\ drop_log = Zero
    /\ disconnect_called = FALSE

(* Pixel.__init__ and the class default _expected_disconnect = False *)
FacadeInit == FacadeIdle

(* what disconnect() sets before it tears the link down *)
MarkExpected == TRUE

(* connect(): clear the flag, then await the link's connect *)
Connect(who) ==
    /\ _expected_disconnect' = FALSE
    /\ IF conn = "disconnected"
       THEN conn' = "connecting" /\ connecting_for' = who
       ELSE UNCHANGED <<conn, connecting_for>>

(* a link that cannot be connected again once it was disconnected *)
link_disconnect_closed(state) == "closed"

(* the link's disconnect(): the subscription and the transport session are *)
(* torn down; a link that has no session stays as it is                    *)
link_disconnect(state) == IF state = "connected" THEN "disconnected" ELSE state

(* disconnect(): set the flag, then the link drops the session; the        *)
(* transport reports the drop through the disconnected callback            *)
Disconnect ==
    /\ _expected_disconnect' = MarkExpected
    /\ disconnect_called' = TRUE
    /\ conn' = link_disconnect(conn)
    /\ IF conn = "connected"
       THEN /\ pending_drops' = Append(pending_drops, "explicit")
            /\ drop_log' = [drop_log EXCEPT !["explicit"] = @ + 1]
       ELSE UNCHANGED <<pending_drops, drop_log>>

AppConnect ==
    /\ conn = "disconnected"
    /\ scope_pc # "connecting"
    /\ Connect("app")
    /\ UNCHANGED <<disconnected_handlers, scope_pc, pending_drops,
                   pending_reconnects, auto_connects, emitted, drop_log,
                   disconnect_called>>

AppDisconnect ==
    /\ conn # "connecting"
    /\ Drops < MaxDrops
    /\ Disconnect
    /\ UNCHANGED <<connecting_for, disconnected_handlers, scope_pc,
                   pending_reconnects, auto_connects, emitted>>

(* the link's connect succeeds *)
ConnectOk ==
    /\ conn = "connecting"
    /\ conn' = "connected"
    /\ connecting_for' = "none"
    /\ scope_pc' = IF connecting_for = "scope" THEN "inside" ELSE scope_pc
    /\ UNCHANGED <<_expected_disconnect, disconnected_handlers, pending_drops,
                   pending_reconnects, auto_connects, emitted, drop_log,
                   disconnect_called>>

(* the link's connect raises; in connect_with_reconnect the await is       *)
(* outside the try, so the error leaves the context manager at once        *)
ConnectFail ==
    /\ conn = "connecting"
    /\ conn' = "disconnected"
    /\ connecting_for' = "none"
    /\ scope_pc' = IF connecting_for = "scope" THEN "failed" ELSE scope_pc
    /\ UNCHANGED <<_expected_disconnect, disconnected_handlers, pending_drops,
                   pending_reconnects, auto_connects, emitted, drop_log,
                   disconnect_called>>

(* the peripheral drops the connection; the callback schedules the task *)
UnexpectedDrop ==
    /\ conn = "connected"
    /\ Drops < MaxDrops
    /\ conn' = "disconnected"
    /\ LET cause == IF scope_pc = "inside" THEN "scoped" ELSE "unscoped"
       IN  /\ pending_drops' = Append(pending_drops, cause)
           /\ drop_log' = [drop_log EXCEPT ![cause] = @ + 1]
    /\ UNCHANGED <<_expected_disconnect, connecting_for, disconnected_handlers,
                   scope_pc, pending_reconnects, auto_connects, emitted,
                   disconnect_called>>

(* _on_disconnect: the scheduled task runs; trigger() schedules a call of  *)
(* every handler registered at that moment                                 *)
OnDisconnect ==
    /\ pending_drops # <<>>
    /\ pending_drops' = Tail(pending_drops)
    /\ IF ~_expected_disconnect
       THEN /\ emitted' = [emitted EXCEPT ![Head(pending_drops)] = @ + 1]
            /\ pending_reconnects' =
                   IF "reconnect" \in disconnected_handlers
                   THEN Append(pending_reconnects, Head(pending_drops))
                   ELSE pending_reconnects
       ELSE UNCHANGED <<emitted, pending_reconnects>>
    /\ UNCHANGED <<_expected_disconnect, conn, connecting_for,
                   disconnected_handlers, scope_pc, auto_connects, drop_log,
                   disconnect_called>>

(* the reconnect handler of connect_with_reconnect: await self.connect() *)
Reconnect ==
    /\ pending_reconnects # <<>>
    /\ pending_reconnects' = Tail(pending_reconnects)
    /\ auto_connects' = [auto_connects EXCEPT ![Head(pending_reconnects)] = @ + 1]
    /\ Connect("reconnect")
    /\ UNCHANGED <<disconnected_handlers, scope_pc, pending_drops, emitted, drop_log,
                   disconnect_called>>

(* connect_with_reconnect up to its first suspension: the handler is       *)
(* registered, then connect() is awaited                                   *)
ScopeEnter ==
    /\ scope_pc = "outside"
    /\ conn = "disconnected"
    /\ disconnected_handlers' = disconnected_handlers \cup {"reconnect"}
    /\ scope_pc' = "connecting"
    /\ Connect("scope")
    /\ UNCHANGED <<pending_drops, pending_reconnects, auto_connects, emitted, drop_log,
                   disconnect_called>>

(* the body is left (return, error or cancellation): the finally clause    *)
(* removes the handler and disconnects                                     *)
ScopeExit ==
    /\ scope_pc = "inside"
    /\ conn # "connecting"
    /\ disconnected_handlers' = disconnected_handlers \ {"reconnect"}
    /\ scope_pc' = "done"
    /\ Disconnect
    /\ UNCHANGED <<connecting_for, pending_reconnects, auto_connects, emitted>>

(***************************************************************************)
(* Discovery: ScanResult._construct turns the two blobs of an              *)
(* advertisement into a summary; scan_for_dice runs a scanner whose        *)
(* detection callback queues the summaries of the qualifying               *)
(* advertisements, and yields them while its consumer iterates.            *)
(***************************************************************************)
EmptySummary ==
    [led_count |-> PyInt(0), design_and_color |-> PyInt(0), roll_state |-> PyInt(0),
     roll_face |-> PyInt(0), batt_state |-> PyInt(0), batt_level |-> PyInt(0),
     pixel_id |-> PyInt(0), build_timestamp |-> PyDatetime(0, 0)]
NoSummary == [err |-> "unset", sr |-> EmptySummary]

(* ScanBattState(batt >> 7) *)
BattState(batt) == batt \div 128

(* a level that keeps the charging bit *)
BattLevel_unmasked(batt) == batt

(* batt & 0x7F *)
BattLevel(batt) == batt % 128

ScanResult_construct(mdata, sdata) ==
    LET m == struct_unpack(<<Item("B"), Item("B"), Item("B"), Item("B"), Item("B")>>, mdata)
        sv == struct_unpack(<<Item("I"), Item("I")>>, sdata)
        design == Convert("DesignAndColor", m.values[2])
        roll == Convert("RollState_State", m.values[3])
    IN  IF m.err # "none" THEN [err |-> m.err, sr |-> EmptySummary]
        ELSE IF sv.err # "none" THEN [err |-> sv.err, sr |-> EmptySummary]
        ELSE IF design.err # "none" THEN [err |-> design.err, sr |-> EmptySummary]
        ELSE IF roll.err # "none" THEN [err |-> roll.err, sr |-> EmptySummary]
        ELSE [err |-> "none",
              sr |-> [led_count |-> m.values[1],
                      design_and_color |-> design.v,
                      roll_state |-> roll.v,
                      roll_face |-> m.values[4],
                      batt_state |-> PyInt(BattState(m.values[5].n)),
                      batt_level |-> PyInt(BattLevel(m.values[5].n)),
                      pixel_id |-> sv.values[1],
                      build_timestamp |-> Convert("datetime", sv.values[2]).v]]

(* the blobs given to _construct *)
ManufacturerBlobs ==
    {<<l, d, r, f, b>> : l \in {6, 20}, d \in {0, 11, 12, 13, 200},
                         r \in {0, 1, 4, 5}, f \in {0, 10, 255},
                         b \in {0, 72, 128, 200, 255}}
        \cup {<<20, 11, 1, 10>>, <<20, 11, 1, 10, 72, 0>>}

ServiceBlobs ==
    LET FourBytes == {<<90, 138, 240, 6>>, <<23, 135, 136, 100>>,
                      <<255, 255, 255, 255>>, <<0, 0, 0, 128>>}
    IN  {a \o b : a \in FourBytes, b \in FourBytes} \cup {<<90, 138, 240, 6>>}

AdvertIdle == adv = [mdata |-> <<>>, sdata |-> <<>>] /\ adv_result = NoSummary

AdvertInit ==
    /\ adv \in [mdata : ManufacturerBlobs, sdata : ServiceBlobs]
    /\ adv_result = NoSummary

ConstructSummary ==
    /\ adv_result = NoSummary
    /\ adv_result' = ScanResult_construct(adv.mdata, adv.sdata)
    /\ UNCHANGED adv

MaxAds == 3

(* an advertisement: whether manufacturer_data has the key 0xFFFF and      *)
(* service_data the info service, and the blobs under them                 *)
Advert(m, md, sv, sd) == [has_m |-> m, mdata |-> md, has_s |-> sv, sdata |-> sd]

ScanAds ==
    {Advert(FALSE, <<>>, FALSE, <<>>),
     Advert(TRUE, <<20, 11, 1, 10, 72>>, TRUE, <<90, 138, 240, 6, 23, 135, 136, 100>>),
     Advert(TRUE, <<6, 0, 4, 5, 200>>, TRUE, <<255, 255, 255, 255, 0, 0, 0, 128>>),
     Advert(TRUE, <<20, 11, 1, 10, 72>>, FALSE, <<>>),
     Advert(FALSE, <<>>, TRUE, <<90, 138, 240, 6, 23, 135, 136, 100>>),
     Advert(TRUE, <<20, 200, 1, 10, 72>>, TRUE, <<90, 138, 240, 6, 23, 135, 136, 100>>)}

ScanIdle ==
    /\ scan_pc = "none" /\ scan_exit = "none"
    /\ scan_starts = 0 /\ scan_stops = 0
    /\ scan_q = <<>> /\ scan_yielded = <<>> /\ scan_seen = <<>>
    /\ detect_error = "none"

(* a filter that tests the service data the wrong way round *)
Qualifies_missing_service(ad) == ad.has_m /\ ~ad.has_s

(* 0xFFFF in ad_data.manufacturer_data and SERVICE_INFO in ad_data.service_data *)
Qualifies(ad) == ad.has_m /\ ad.has_s

(* an exit of the scanner's context that does not stop the scan *)
scanner_aexit_skipped(stops) == stops

(* async with scanner, on the way out: the scanner's stop() is awaited *)
scanner_aexit(stops) == stops + 1

(* the first __anext__: queue and scanner are made, the scanner's context  *)
(* is entered (the scan starts) and the generator waits on q.get()         *)
ScanBegin ==
    /\ scan_pc = "none"
    /\ scan_pc' = "waiting"
    /\ scan_starts' = scan_starts + 1
    /\ UNCHANGED <<scan_exit, scan_stops, scan_q, scan_yielded, scan_seen, detect_error>>

(* detected(device, ad_data), called by the running scanner *)
Detected(ad) ==
    /\ scan_starts > scan_stops
    /\ Len(scan_seen) < MaxAds
    /\ scan_seen' = Append(scan_seen, ad)
    /\ IF Qualifies(ad)
       THEN LET r == ScanResult_construct(ad.mdata, ad.sdata)
            IN  IF r.err # "none"
                THEN detect_error' = r.err /\ UNCHANGED scan_q
                ELSE detect_error' = "none" /\ scan_q' = Append(scan_q, r.sr)
       ELSE detect_error' = "none" /\ UNCHANGED scan_q
    /\ UNCHANGED <<scan_pc, scan_exit, scan_starts, scan_stops, scan_yielded>>

(* yield await q.get() *)
ScanYield ==
    /\ scan_pc = "waiting"
    /\ scan_q # <<>>
    /\ scan_yielded' = Append(scan_yielded, Head(scan_q))
    /\ scan_q' = Tail(scan_q)
    /\ scan_pc' = "body"
    /\ UNCHANGED <<scan_exit, scan_starts, scan_stops, scan_seen, detect_error>>

(* the consumer's loop body ends and asks for the next item *)
ScanResume ==
    /\ scan_pc = "body"
    /\ scan_pc' = "waiting"
    /\ UNCHANGED <<scan_exit, scan_starts, scan_stops, scan_q, scan_yielded,
                   scan_seen, detect_error>>

(* the consumer leaves the loop from its body (break, an error, or a       *)
(* cancellation): the generator stays suspended at its yield               *)
ScanLeaveBody(how) ==
    /\ scan_pc = "body"
    /\ how \in {"break", "error", "cancel"}
    /\ scan_pc' = "abandoned"
    /\ scan_exit' = how
    /\ UNCHANGED <<scan_starts, scan_stops, scan_q, scan_yielded, scan_seen,
                   detect_error>>

(* the consumer is cancelled (a timeout) while the generator awaits        *)
(* q.get(): CancelledError unwinds the generator through async with        *)
ScanCancelWaiting ==
    /\ scan_pc = "waiting"
    /\ scan_pc' = "closed"
    /\ scan_exit' = "cancel"
    /\ scan_stops' = scanner_aexit(scan_stops)
    /\ UNCHANGED <<scan_starts, scan_q, scan_yielded, scan_seen, detect_error>>

(* the abandoned generator is finalized: the event loop's asyncgen hook    *)
(* (or its shutdown) runs aclose(), GeneratorExit unwinds async with       *)
ScanFinalize ==
    /\ scan_pc = "abandoned"
    /\ scan_pc' = "closed"
    /\ scan_stops' = scanner_aexit(scan_stops)
    /\ UNCHANGED <<scan_exit, scan_starts, scan_q, scan_yielded, scan_seen,
                   detect_error>>

(***************************************************************************)
(* The facade's cache.  Pixel.__init__ fills the cached fields from a      *)
(* summary; who_are_you sends a WhoAreYou, awaits the IAmADie, stores its  *)
(* fields and triggers data_changed with a set of field names.             *)
(***************************************************************************)
PixelIdle ==
    /\ pixel_pc = "none" /\ pixel_sent = <<>> /\ pixel_resp = NoMsg
    /\ cache = EmptySummary
    /\ data_changed = <<>>
    /\ pixel_name = <<>> /\ new_name = <<>> /\ pixel_ret = NoMsg
    /\ published = <<>> /\ prompt_acks = <<>>

(* the IAmADie messages a die answers with, as unpack decodes its packets *)
WhoResponses ==
    {unpack(<<2, l, d, 0, 18, 166, 190, 179, 90, 138, 240, 6, 48, 30, 23, 135, 136, 100,
              rs, f, bl, bs>>).msg :
        l \in {6, 20}, d \in {0, 11}, rs \in {1, 3}, f \in {5}, bl \in {79},
        bs \in {0, 2}}

(* Pixel.__init__(sr); batt_state goes through ScanBattState.as_batterystate *)
Hydrate(sr) ==
    /\ pixel_pc = "none"
    /\ pixel_pc' = "idle"
    /\ cache' = [sr EXCEPT !.batt_state = PyInt(IF sr.batt_state.n = 1 THEN 2 ELSE 0)]
    /\ pixel_name' = <<70, 114, 97, 110, 99, 105, 115>>
    /\ UNCHANGED <<pixel_sent, pixel_resp, data_changed, new_name, pixel_ret,
                   published, prompt_acks>>

(* who_are_you up to the await: the request is written, or the write raises *)
WhoSend ==
    /\ pixel_pc = "idle"
    /\ \/ pixel_sent' = Append(pixel_sent, pack([cls |-> 1, fields |-> <<>>]).bytes)
          /\ pixel_pc' = "who_waiting"
       \/ pixel_pc' = "raised" /\ UNCHANGED pixel_sent
    /\ UNCHANGED <<pixel_resp, cache, data_changed, pixel_name, new_name, pixel_ret,
                   published, prompt_acks>>

(* who_are_you from the IAmADie on: the assignments and the trigger *)
WhoReply(msg) ==
    /\ pixel_pc = "who_waiting"
    /\ msg.cls = 2
    /\ pixel_resp' = msg
    /\ cache' = [cache EXCEPT !.roll_state = msg.fields[7],
                              !.roll_face = msg.fields[8],
                              !.batt_state = msg.fields[10],
                              !.batt_level = msg.fields[9],
                              !.build_timestamp = msg.fields[6],
                              !.design_and_color = msg.fields[2],
                              !.led_count = msg.fields[1],
                              !.pixel_id = msg.fields[4]]
    /\ data_changed' = Append(data_changed,
                            {"roll_state", "roll_face", "batt_state", "batt_level",
                             "build_timestamp", "design_and_color", "pixel_id"})
    /\ pixel_pc' = "done"
    /\ UNCHANGED <<pixel_sent, pixel_name, new_name, pixel_ret, published, prompt_acks>>

MaxEvents == 2
MaxResponds == 2

(* the messages a die sends besides IAmADie, as unpack decodes them:       *)
(* RollState, BatteryLevel, NotifyUser and SetNameAck                      *)
PixelInbound ==
    {unpack(b).msg : b \in {<<3, 1, 5>>, <<3, 3, 0>>, <<34, 100, 2>>,
                            <<39, 30, 1, 0, 72, 105>>, <<52>>}}

(* the names set_name is called with *)
NewNames == {<<>>, <<66, 111, 98>>}

(* _on_roll_state, the handler Pixel.__init__ appends for RollState; the   *)
(* link calls it for a RollState no request is waiting for                 *)
on_roll_state(msg) ==
    /\ pixel_pc \notin {"none", "roll_waiting"}
    /\ msg.cls = 3
    /\ Len(published) < MaxEvents
    /\ cache' = [cache EXCEPT !.roll_state = msg.fields[1], !.roll_face = msg.fields[2]]
    /\ data_changed' = Append(data_changed, {"roll_state", "roll_face"})
    /\ published' = Append(published,
                        [event |-> "got_roll_state", msg |-> msg, args |-> <<msg>>,
                         cache |-> cache'])
    /\ UNCHANGED <<pixel_pc, pixel_sent, pixel_resp, pixel_name, new_name, pixel_ret,
                   prompt_acks>>

(* a handler that stores level and state the wrong way round *)
on_battery_level_swapped(msg) ==
    /\ pixel_pc \notin {"none", "batt_waiting"}
    /\ msg.cls = 34
    /\ Len(published) < MaxEvents
    /\ cache' = [cache EXCEPT !.batt_state = msg.fields[1], !.batt_level = msg.fields[2]]
    /\ data_changed' = Append(data_changed, {"batt_state", "batt_level"})
    /\ published' = Append(published,
                        [event |-> "got_battery_level", msg |-> msg, args |-> <<msg>>,
                         cache |-> cache'])
    /\ UNCHANGED <<pixel_pc, pixel_sent, pixel_resp, pixel_name, new_name, pixel_ret,
                   prompt_acks>>

(* _on_battery_level *)
on_battery_level(msg) ==
    /\ pixel_pc \notin {"none", "batt_waiting"}
    /\ msg.cls = 34
    /\ Len(published) < MaxEvents
    /\ cache' = [cache EXCEPT !.batt_state = msg.fields[2], !.batt_level = msg.fields[1]]
    /\ data_changed' = Append(data_changed, {"batt_state", "batt_level"})
    /\ published' = Append(published,
                        [event |-> "got_battery_level", msg |-> msg, args |-> <<msg>>,
                         cache |-> cache'])
    /\ UNCHANGED <<pixel_pc, pixel_sent, pixel_resp, pixel_name, new_name, pixel_ret,
                   prompt_acks>>

(* _on_notify_user: notify_user is triggered with text, ok, cancel,        *)
(* timeout and a fresh respond closure (numbered by its prompt)            *)
on_notify_user(msg) ==
    /\ pixel_pc # "none"
    /\ msg.cls = 39
    /\ Len(published) < MaxEvents
    /\ published' = Append(published,
                        [event |-> "notify_user", msg |-> msg,
                         args |-> <<msg.fields[4], msg.fields[2], msg.fields[3],
                                    msg.fields[1], Len(prompt_acks) + 1>>,
                         cache |-> cache])
    /\ prompt_acks' = Append(prompt_acks, <<>>)
    /\ UNCHANGED <<pixel_pc, pixel_sent, pixel_resp, cache, data_changed, pixel_name,
                   new_name, pixel_ret>>

(* respond(resp) of prompt p, called by a notify_user handler: a task is   *)
(* created that sends NotifyUserAck(resp).  The responder of one prompt is *)
(* exercised in a run.                                                     *)
respond(p, resp) ==
    /\ p \in 1..Len(prompt_acks)
    /\ \A q \in 1..Len(prompt_acks) : q # p => prompt_acks[q] = <<>>
    /\ Len(prompt_acks[p]) < MaxResponds
    /\ prompt_acks' = [prompt_acks EXCEPT ![p] =
                          Append(@, pack([cls |-> 40, fields |-> <<PyInt(resp)>>]).bytes)]
    /\ UNCHANGED <<pixel_pc, pixel_sent, pixel_resp, cache, data_changed, pixel_name,
                   new_name, pixel_ret, published>>

(* get_roll_state, get_battery_level and set_name up to the await: the     *)
(* request is written, or the write raises                                 *)
PixelRequest(kind, nm) ==
    /\ pixel_pc = "idle"
    /\ new_name' = IF kind = "name" THEN nm ELSE new_name
    /\ \/ /\ pixel_sent' = Append(pixel_sent,
                CASE kind = "roll" -> pack([cls |-> 23, fields |-> <<>>]).bytes
                  [] kind = "batt" -> pack([cls |-> 33, fields |-> <<>>]).bytes
                  [] OTHER -> pack([cls |-> 51, fields |-> <<PyStr(nm)>>]).bytes)
          /\ pixel_pc' = CASE kind = "roll" -> "roll_waiting"
                           [] kind = "batt" -> "batt_waiting"
                           [] OTHER -> "name_waiting"
       \/ pixel_pc' = "raised" /\ UNCHANGED pixel_sent
    /\ UNCHANGED <<pixel_resp, cache, data_changed, pixel_name, pixel_ret, published,
                   prompt_acks>>

(* the calling task is cancelled while it awaits the response *)
PixelCancel ==
    /\ pixel_pc \in {"who_waiting", "roll_waiting", "batt_waiting", "name_waiting"}
    /\ pixel_pc' = "cancelled"
    /\ UNCHANGED <<pixel_sent, pixel_resp, cache, data_changed, pixel_name, new_name,
                   pixel_ret, published, prompt_acks>>

(* a reply handling that returns nothing *)
GetReply_no_return(msg) ==
    /\ \/ /\ pixel_pc = "roll_waiting" /\ msg.cls = 3
          /\ cache' = [cache EXCEPT !.roll_state = msg.fields[1],
                                    !.roll_face = msg.fields[2]]
          /\ data_changed' = Append(data_changed, {"roll_state", "roll_face"})
       \/ /\ pixel_pc = "batt_waiting" /\ msg.cls = 34
          /\ cache' = [cache EXCEPT !.batt_level = msg.fields[1],
                                    !.batt_state = msg.fields[2]]
          /\ data_changed' = Append(data_changed, {"batt_level", "batt_state"})
    /\ pixel_resp' = msg
    /\ pixel_pc' = "done"
    /\ UNCHANGED <<pixel_sent, pixel_name, new_name, pixel_ret, published, prompt_acks>>

(* get_roll_state / get_battery_level from the response on *)
GetReply(msg) ==
    /\ \/ /\ pixel_pc = "roll_waiting" /\ msg.cls = 3
          /\ cache' = [cache EXCEPT !.roll_state = msg.fields[1],
                                    !.roll_face = msg.fields[2]]
          /\ data_changed' = Append(data_changed, {"roll_state", "roll_face"})
       \/ /\ pixel_pc = "batt_waiting" /\ msg.cls = 34
          /\ cache' = [cache EXCEPT !.batt_level = msg.fields[1],
                                    !.batt_state = msg.fields[2]]
          /\ data_changed' = Append(data_changed, {"batt_level", "batt_state"})
    /\ pixel_resp' = msg
    /\ pixel_ret' = msg
    /\ pixel_pc' = "done"
    /\ UNCHANGED <<pixel_sent, pixel_name, new_name, published, prompt_acks>>

(* a set_name that stores the name and tells nobody *)
NameAck_silent(msg) ==
    /\ pixel_pc = "name_waiting" /\ msg.cls = 52
    /\ pixel_resp' = msg
    /\ pixel_name' = new_name
    /\ pixel_pc' = "done"
    /\ UNCHANGED <<pixel_sent, cache, data_changed, new_name, pixel_ret, published,
                   prompt_acks>>

(* set_name from the SetNameAck on *)
NameAck(msg) ==
    /\ pixel_pc = "name_waiting" /\ msg.cls = 52
    /\ pixel_resp' = msg
    /\ pixel_name' = new_name
    /\ data_changed' = Append(data_changed, {"name"})
    /\ pixel_pc' = "done"
    /\ UNCHANGED <<pixel_sent, cache, new_name, pixel_ret, published, prompt_acks>>

(***************************************************************************)
(* Two sessions.  ScanResult.hydrate builds a Pixel, whose __init__ builds *)
(* its own PixelLink, whose __init__ builds the two tables; facade i keeps *)
(* its tables under TablesOf(i).  A waiter is <<facade, number>>, a        *)
(* handler is named by the facade whose _on_roll_state it is, and a cached *)
(* roll state is remembered with the link its message came in on.          *)
(***************************************************************************)
MaxSessionOps == 4

Facades == {1, 2}

(* tables kept once for all instances (a dict made at class level) *)
TablesOf_shared(i) == 1

(* self._wait_queue = defaultdict(list); self._message_handlers = ...:     *)
(* made in __init__, one pair per instance                                 *)
TablesOf(i) == i

SessionsIdle ==
    sessions = [alive |-> {}, ops |-> 0,
                wq |-> [i \in Facades |-> <<>>],
                mh |-> [i \in Facades |-> <<>>],
                roll |-> [i \in Facades |-> [v |-> 0, link |-> 0]],
                got |-> {}, ran |-> {}]

(* sr.hydrate(): Pixel(sr), the link and its _on_roll_state handler *)
SessionHydrate(i) ==
    /\ i \notin sessions.alive
    /\ sessions' = [sessions EXCEPT !.alive = @ \cup {i},
                                    !.mh[TablesOf(i)] = Append(@, i)]

(* facade i calls _wait / _send_and_wait for a RollState *)
SessionWait(i) ==
    /\ i \in sessions.alive
    /\ sessions.ops < MaxSessionOps
    /\ sessions' = [sessions EXCEPT !.ops = @ + 1,
                                    !.wq[TablesOf(i)] = Append(@, <<i, sessions.ops>>)]

(* a RollState with state v comes in on the link of facade i: _dispatch    *)
(* on that link's tables, a handler being the _on_roll_state of its facade *)
SessionRecv(i, v) ==
    /\ i \in sessions.alive
    /\ sessions.ops < MaxSessionOps
    /\ LET t == TablesOf(i)
           q == sessions.wq[t]
           hs == Range(sessions.mh[t])
       IN  IF Len(q) # 0
           THEN sessions' = [sessions EXCEPT !.ops = @ + 1,
                                             !.wq[t] = Tail(q),
                                             !.got = @ \cup {[waiter |-> Head(q), link |-> i]}]
           ELSE sessions' = [sessions EXCEPT !.ops = @ + 1,
                                             !.ran = @ \cup {[handler |-> h, link |-> i] : h \in hs},
                                             !.roll = [j \in Facades |->
                                                          IF j \in hs THEN [v |-> v, link |-> i]
                                                          ELSE @[j]]]

(***************************************************************************)
(* Two calls of scan_for_dice.  Each call makes its own queue and its own  *)
(* scanner, whose callback puts the summaries on the queue of its call;    *)
(* call i keeps its queue under QueueOf(i).  A queued summary is           *)
(* remembered with the call whose scanner observed it.                     *)
(***************************************************************************)
MaxObserved == 3

ScanCalls == {1, 2}

(* one queue for all calls (a queue made at module level) *)
QueueOf_shared(i) == 1

(* q = asyncio.Queue(), a local of the call *)
QueueOf(i) == i

ScansIdle ==
    scans = [pc |-> [i \in ScanCalls |-> "none"],
             q |-> [i \in ScanCalls |-> <<>>],
             seen |-> [i \in ScanCalls |-> <<>>],
             yielded |-> [i \in ScanCalls |-> <<>>],
             n |-> 0]

(* the first __anext__ of call i: queue and scanner are made, the scan     *)
(* starts and the generator waits on q.get()                               *)
ScansBegin(i) ==
    /\ scans.pc[i] = "none"
    /\ scans' = [scans EXCEPT !.pc[i] = "waiting"]

(* detected(device, ad_data) of call i, called by its scanner *)
ScansDetected(i, ad) ==
    /\ scans.pc[i] # "none"
    /\ scans.n < MaxObserved
    /\ LET r == ScanResult_construct(ad.mdata, ad.sdata)
       IN  IF Qualifies(ad) /\ r.err = "none"
           THEN scans' = [scans EXCEPT !.n = @ + 1,
                                       !.seen[i] = Append(@, ad),
                                       !.q[QueueOf(i)] = Append(@, [by |-> i, sr |-> r.sr])]
           ELSE scans' = [scans EXCEPT !.n = @ + 1,
                                       !.seen[i] = Append(@, ad)]

(* yield await q.get() of call i *)
ScansYield(i) ==
    /\ scans.pc[i] = "waiting"
    /\ scans.q[QueueOf(i)] # <<>>
    /\ scans' = [scans EXCEPT !.pc[i] = "body",
                              !.yielded[i] = Append(@, Head(scans.q[QueueOf(i)])),
                              !.q[QueueOf(i)] = Tail(@)]

(* the consumer of call i finishes its loop body and asks for the next *)
ScansResume(i) ==
    /\ scans.pc[i] = "body"
    /\ scans' = [scans EXCEPT !.pc[i] = "waiting"]

(***************************************************************************)
(* One call of Pixel.blink: the Blink message is built and handed to the   *)
(* link's send-and-wait for a BlinkAck, which queues its future, builds    *)
(* the blob and writes it.                                                 *)
(***************************************************************************)
NoBlink == [a |-> [inf |-> TRUE, n |-> 0], ms |-> 0]

BlinkIdle ==
    /\ blink_pc = "off" /\ blink_args = NoBlink
    /\ blink_wire = <<>> /\ blink_queue = <<>> /\ blink_err = "none"

BlinkInit ==
    /\ blink_pc = "input"
    /\ blink_args \in [a : BlinkArgs, ms : BlinkDurationsMs]
    /\ blink_wire = <<>> /\ blink_queue = <<>> /\ blink_err = "none"

(* blink up to the suspension in the transport write: the message is       *)
(* built, _send_and_wait queues the future, then _send builds the blob;    *)
(* a field out of its item's range raises struct.error there               *)
BlinkCall ==
    /\ blink_pc = "input"
    /\ blink_queue' = Enqueue(blink_queue, "fut")
    /\ LET blob == link_blob(Pixel_blink(blink_args.a, blink_args.ms))
       IN  /\ blink_err' = blob.err
           /\ blink_pc' = IF blob.err = "none" THEN "writing" ELSE "raised"
    /\ UNCHANGED <<blink_args, blink_wire>>

(* write_gatt_char returns, or raises *)
BlinkWrite ==
    /\ blink_pc = "writing"
    /\ \/ /\ blink_wire' = Append(blink_wire,
                               link_blob(Pixel_blink(blink_args.a, blink_args.ms)).bytes)
          /\ blink_pc' = "waiting"
          /\ UNCHANGED blink_err
       \/ /\ blink_pc' = "raised"
          /\ blink_err' = "BleakError"
          /\ UNCHANGED blink_wire
    /\ UNCHANGED <<blink_args, blink_queue>>

(* the BlinkAck is dispatched to the queued future and blink returns *)
BlinkAcked ==
    /\ blink_pc = "waiting"
    /\ blink_queue # <<>>
    /\ blink_queue' = PopWaiter(blink_queue)
    /\ blink_pc' = "done"
    /\ UNCHANGED <<blink_args, blink_wire, blink_err>>

(***************************************************************************)
(* A request and the broadcasts of its kind.  get_roll_state and           *)
(* get_battery_level queue a waiter and store the response's two fields    *)
(* when the caller runs again; _dispatch gives a message to the queued     *)
(* waiter, whose caller runs later, or calls _on_roll_state or             *)
(* _on_battery_level, which stores the fields at once.  The two cached     *)
(* fields of a kind are kept as the pair of the message they came from.    *)
(***************************************************************************)
MaxInbound == 3

Kinds == {"roll", "batt"}

(* RollState (state, face) and BatteryLevel (level, state) as received *)
KindMsgs(k) == IF k = "roll" THEN {<<1, 5>>, <<3, 0>>} ELSE {<<100, 2>>, <<50, 1>>}

FreshIdle ==
    /\ get_pc = [k \in Kinds |-> "idle"]
    /\ get_fut = [k \in Kinds |-> <<>>]
    /\ fresh = [k \in Kinds |-> <<>>]
    /\ latest = [k \in Kinds |-> <<>>]
    /\ inbound_n = 0

(* get_roll_state / get_battery_level up to 'return await fut' *)
GetState(k) ==
    /\ get_pc[k] \in {"idle", "done"}
    /\ get_pc' = [get_pc EXCEPT ![k] = "waiting"]
    /\ UNCHANGED <<get_fut, fresh, latest, inbound_n>>

(* _dispatch of a message of the kind: the queued future is popped and     *)
(* resolved, or _on_roll_state / _on_battery_level is called and stores    *)
(* the fields                                                              *)
FreshDispatch(k, m) ==
    /\ inbound_n < MaxInbound
    /\ inbound_n' = inbound_n + 1
    /\ latest' = [latest EXCEPT ![k] = m]
    /\ IF get_pc[k] = "waiting"
       THEN /\ get_fut' = [get_fut EXCEPT ![k] = m]
            /\ get_pc' = [get_pc EXCEPT ![k] = "resolved"]
            /\ UNCHANGED fresh
       ELSE /\ fresh' = [fresh EXCEPT ![k] = m]
            /\ UNCHANGED <<get_fut, get_pc>>

(* the caller runs again: the fields of the response are stored *)
GetResume(k) ==
    /\ get_pc[k] = "resolved"
    /\ fresh' = [fresh EXCEPT ![k] = get_fut[k]]
    /\ get_pc' = [get_pc EXCEPT ![k] = "done"]
    /\ UNCHANGED <<get_fut, latest, inbound_n>>

(***************************************************************************)
(* Specifications.                                                         *)
(***************************************************************************)
Init == CodecIdle /\ RegistryIdle /\ LinkInit /\ FacadeIdle /\ AdvertIdle /\ ScanIdle /\ PixelIdle /\ SessionsIdle /\ FreshIdle /\ ScansIdle /\ BlinkIdle

Next ==
    \/ \E t \in MsgTypes, h \in Handlers : AddHandler(t, h) /\ UNCHANGED <<recv_log, not_link_vars>>
    \/ \E c \in Callers, t \in MsgTypes : Wait(c, t) /\ UNCHANGED <<recv_log, not_link_vars>>
    \/ \E c \in Callers, t \in MsgTypes : SendAndWait(c, t) /\ UNCHANGED <<recv_log, not_link_vars>>
    \/ \E c \in Callers : WriteDone(c) /\ UNCHANGED <<recv_log, not_link_vars>>
    \/ \E c \in Callers : WriteFail(c) /\ UNCHANGED <<recv_log, not_link_vars>>
    \/ \E c \in Callers : Cancel(c) /\ UNCHANGED <<recv_log, not_link_vars>>
    \/ \E c \in Callers : Resume(c) /\ UNCHANGED <<recv_log, not_link_vars>>
    \/ \E t \in MsgTypes : Dispatch(t) /\ UNCHANGED <<recv_log, not_link_vars>>
    \/ \E t \in MsgTypes, k \in 1..2 :
          DispatchHandlerRaises(t, k) /\ UNCHANGED <<recv_log, not_link_vars>>

Spec == Init /\ [][Next]_vars

CodecNext ==
    \/ Pack /\ UNCHANGED not_codec_vars
    \/ UnpackPacked /\ UNCHANGED not_codec_vars
    \/ Unpack /\ UNCHANGED not_codec_vars
    \/ Send /\ UNCHANGED not_codec_vars

CodecStart == CodecInit /\ RegistryIdle /\ LinkIdle /\ FacadeIdle /\ AdvertIdle /\ ScanIdle /\ PixelIdle /\ SessionsIdle /\ FreshIdle /\ ScansIdle /\ BlinkIdle

CodecSpec == CodecStart /\ [][CodecNext]_vars

RegistryNext ==
    \E id \in DefIds \cup {NoId} :
        DefineClass(id) /\ UNCHANGED not_registry_vars

RegistryStart == CodecIdle /\ RegistryInit /\ LinkIdle /\ FacadeIdle /\ AdvertIdle /\ ScanIdle /\ PixelIdle /\ SessionsIdle /\ FreshIdle /\ ScansIdle /\ BlinkIdle

RegistrySpec == RegistryStart /\ [][RegistryNext]_vars

RecvNext ==
    \/ \E t \in MsgTypes, h \in Handlers : AddHandler(t, h) /\ UNCHANGED <<recv_log, not_link_vars>>
    \/ \E c \in Callers, t \in MsgTypes : Wait(c, t) /\ UNCHANGED <<recv_log, not_link_vars>>
    \/ \E c \in Callers : Cancel(c) /\ UNCHANGED <<recv_log, not_link_vars>>
    \/ \E p \in RecvPackets : RecvNotify(p) /\ UNCHANGED not_link_vars

RecvSpec == Init /\ [][RecvNext]_vars

AdvertNext == ConstructSummary /\ UNCHANGED not_advert_vars

AdvertStart == CodecIdle /\ RegistryIdle /\ LinkIdle /\ FacadeIdle /\ AdvertInit /\ ScanIdle /\ PixelIdle /\ SessionsIdle /\ FreshIdle /\ ScansIdle /\ BlinkIdle

AdvertSpec == AdvertStart /\ [][AdvertNext]_vars

ScanNext ==
    \/ ScanBegin /\ UNCHANGED not_scan_vars
    \/ \E ad \in ScanAds : Detected(ad) /\ UNCHANGED not_scan_vars
    \/ ScanYield /\ UNCHANGED not_scan_vars
    \/ ScanResume /\ UNCHANGED not_scan_vars
    \/ \E how \in {"break", "error", "cancel"} : ScanLeaveBody(how) /\ UNCHANGED not_scan_vars
    \/ ScanCancelWaiting /\ UNCHANGED not_scan_vars
    \/ ScanFinalize /\ UNCHANGED not_scan_vars

ScanSpec == Init /\ [][ScanNext]_vars

(* the finalizer of an abandoned generator is run in the end *)
ScanFairSpec == ScanSpec /\ WF_vars(ScanFinalize /\ UNCHANGED not_scan_vars)

PixelNext ==
    \/ \E ad \in ScanAds :
          /\ ScanResult_construct(ad.mdata, ad.sdata).err = "none"
          /\ Hydrate(ScanResult_construct(ad.mdata, ad.sdata).sr)
          /\ UNCHANGED not_pixel_vars
    \/ WhoSend /\ UNCHANGED not_pixel_vars
    \/ \E msg \in WhoResponses : WhoReply(msg) /\ UNCHANGED not_pixel_vars
    \/ \E msg \in PixelInbound : on_roll_state(msg) /\ UNCHANGED not_pixel_vars
    \/ \E msg \in PixelInbound : on_battery_level(msg) /\ UNCHANGED not_pixel_vars
    \/ \E msg \in PixelInbound : on_notify_user(msg) /\ UNCHANGED not_pixel_vars
    \/ \E p \in 1..MaxEvents, resp \in {0, 1} : respond(p, resp) /\ UNCHANGED not_pixel_vars
    \/ \E kind \in {"roll", "batt", "name"}, nm \in NewNames :
          PixelRequest(kind, nm) /\ UNCHANGED not_pixel_vars
    \/ PixelCancel /\ UNCHANGED not_pixel_vars
    \/ \E msg \in PixelInbound : GetReply(msg) /\ UNCHANGED not_pixel_vars
    \/ \E msg \in PixelInbound : NameAck(msg) /\ UNCHANGED not_pixel_vars

PixelSpec == Init /\ [][PixelNext]_vars

SessionsNext ==
    \/ \E i \in Facades : SessionHydrate(i) /\ UNCHANGED not_sessions
    \/ \E i \in Facades : SessionWait(i) /\ UNCHANGED not_sessions
    \/ \E i \in Facades, v \in {1, 3} : SessionRecv(i, v) /\ UNCHANGED not_sessions

SessionsSpec == Init /\ [][SessionsNext]_vars

(* requests for one type while the connection comes and goes: messages     *)
(* arrive only while the transport is connected                            *)
ResponseNext ==
    \/ \E c \in Callers : SendAndWait(c, "RollState") /\ UNCHANGED <<recv_log, not_link_vars>>
    \/ \E c \in Callers : conn = "connected" /\ WriteDone(c) /\ UNCHANGED <<recv_log, not_link_vars>>
    \/ conn = "connected" /\ Dispatch("RollState") /\ UNCHANGED <<recv_log, not_link_vars>>
    \/ \E c \in Callers : Resume(c) /\ UNCHANGED <<recv_log, not_link_vars>>
    \/ AppDisconnect /\ UNCHANGED not_facade_vars
    \/ ConnectOk /\ UNCHANGED not_facade_vars
    \/ UnexpectedDrop /\ UNCHANGED not_facade_vars
    \/ OnDisconnect /\ UNCHANGED not_facade_vars
    \/ Reconnect /\ UNCHANGED not_facade_vars
    \/ ScopeEnter /\ UNCHANGED not_facade_vars

(* the event loop runs a caller whose future is resolved *)
ResponseFairSpec ==
    /\ Init /\ [][ResponseNext]_vars
    /\ WF_vars(\E c \in Callers : Resume(c) /\ UNCHANGED <<recv_log, not_link_vars>>)

ScansNext ==
    \/ \E i \in ScanCalls : ScansBegin(i) /\ UNCHANGED not_scans_vars
    \/ \E i \in ScanCalls, ad \in ScanAds : ScansDetected(i, ad) /\ UNCHANGED not_scans_vars
    \/ \E i \in ScanCalls : ScansYield(i) /\ UNCHANGED not_scans_vars
    \/ \E i \in ScanCalls : ScansResume(i) /\ UNCHANGED not_scans_vars

(* the consumers keep iterating *)
ScansFairSpec ==
    /\ Init /\ [][ScansNext]_vars
    /\ \A i \in ScanCalls :
          /\ WF_vars(ScansYield(i) /\ UNCHANGED not_scans_vars)
          /\ WF_vars(ScansResume(i) /\ UNCHANGED not_scans_vars)

BlinkNext ==
    \/ BlinkCall /\ UNCHANGED not_blink_vars
    \/ BlinkWrite /\ UNCHANGED not_blink_vars
    \/ BlinkAcked /\ UNCHANGED not_blink_vars

BlinkStart == CodecIdle /\ RegistryIdle /\ LinkIdle /\ FacadeIdle /\ AdvertIdle /\ ScanIdle /\ PixelIdle /\ SessionsIdle /\ FreshIdle /\ ScansIdle /\ BlinkInit

BlinkSpec == BlinkStart /\ [][BlinkNext]_vars

FreshNext ==
    \/ \E k \in Kinds : GetState(k) /\ UNCHANGED not_fresh_vars
    \/ \E k \in Kinds : \E m \in KindMsgs(k) : FreshDispatch(k, m) /\ UNCHANGED not_fresh_vars
    \/ \E k \in Kinds : GetResume(k) /\ UNCHANGED not_fresh_vars

FreshSpec == Init /\ [][FreshNext]_vars

FacadeNext ==
    \/ AppConnect /\ UNCHANGED not_facade_vars
    \/ AppDisconnect /\ UNCHANGED not_facade_vars
    \/ ConnectOk /\ UNCHANGED not_facade_vars
    \/ ConnectFail /\ UNCHANGED not_facade_vars
    \/ UnexpectedDrop /\ UNCHANGED not_facade_vars
    \/ OnDisconnect /\ UNCHANGED not_facade_vars
    \/ Reconnect /\ UNCHANGED not_facade_vars
    \/ ScopeEnter /\ UNCHANGED not_facade_vars
    \/ ScopeExit /\ UNCHANGED not_facade_vars

FacadeStart == CodecIdle /\ RegistryIdle /\ LinkIdle /\ FacadeInit /\ AdvertIdle /\ ScanIdle /\ PixelIdle /\ SessionsIdle /\ FreshIdle /\ ScansIdle /\ BlinkIdle

FacadeSpec == FacadeStart /\ [][FacadeNext]_vars

(* a facade and its link together: requests go out while the connection    *)
(* comes and goes; a write succeeds only while the transport is connected, *)
(* and the application connects by hand once connect_with_reconnect is     *)
(* over                                                                    *)
ConnectionNext ==
    \/ AddHandler("RollState", "h1") /\ UNCHANGED <<recv_log, not_link_vars>>
    \/ \E c \in Callers : SendAndWait(c, "RollState") /\ UNCHANGED <<recv_log, not_link_vars>>
    \/ \E c \in Callers : conn = "connected" /\ WriteDone(c) /\ UNCHANGED <<recv_log, not_link_vars>>
    \/ \E c \in Callers : WriteFail(c) /\ UNCHANGED <<recv_log, not_link_vars>>
    \/ scope_pc = "done" /\ AppConnect /\ UNCHANGED not_facade_vars
    \/ AppDisconnect /\ UNCHANGED not_facade_vars
    \/ ConnectOk /\ UNCHANGED not_facade_vars
    \/ UnexpectedDrop /\ UNCHANGED not_facade_vars
    \/ OnDisconnect /\ UNCHANGED not_facade_vars
    \/ Reconnect /\ UNCHANGED not_facade_vars
    \/ ScopeEnter /\ UNCHANGED not_facade_vars
    \/ ScopeExit /\ UNCHANGED not_facade_vars

ConnectionSpec == Init /\ [][ConnectionNext]_vars

(***************************************************************************)
(* Properties.                                                             *)
(***************************************************************************)

(* C1: dispatch precedence.  For the last inbound message: if a waiter was *)
(* queued for its class, the message resolved the oldest waiter and no     *)
(* subscriber was invoked with it; if none was queued, every subscriber of *)
(* the class was invoked with it.                                          *)
C1_DispatchPrecedence ==
    LET d == last_dispatch
    IN  d.msg.serial # 0 =>
          IF d.queue_before # <<>>
          THEN /\ fut_state[Head(d.queue_before)] = "done"
               /\ fut_result[Head(d.queue_before)] = d.msg
               /\ \A h \in Handlers : <<h, d.msg.serial>> \notin invoked
          ELSE \A h \in Range(d.handlers_before) : <<h, d.msg.serial>> \in invoked

(* C2: FIFO waiters.  Per class, the i-th message that met a queued waiter *)
(* was received by the i-th waiter registered for the class, and the       *)
(* waiters not yet served are queued in their registration order.          *)
C2_FifoWaiters ==
    \A t \in MsgTypes :
        /\ \A i \in 1..Len(waiter_msgs[t]) :
              /\ fut_state[registered[t][i]] = "done"
              /\ fut_result[registered[t][i]] = [cls |-> t, serial |-> waiter_msgs[t][i]]
        /\ _wait_queue[t] =
              SubSeq(registered[t], Len(waiter_msgs[t]) + 1, Len(registered[t]))

(* C3: cancellation removes the waiter.  The future of a cancelled caller  *)
(* is in no wait queue, and no inbound message is set on an abandoned      *)
(* future.                                                                 *)
C3_CancelRemovesWaiter ==
    /\ \A c \in Callers : caller_pc[c] = "cancelled" =>
          \A t \in MsgTypes : c \notin Range(_wait_queue[t])
    /\ recv_error = "none"

(* C4: reconnect policy.  An explicit disconnect() leads to no automatic   *)
(* connect(); an unexpected drop inside connect_with_reconnect leads to    *)
(* exactly one: never more, and one once its callback and the handler have *)
(* run, the body still running and no disconnect() called.                 *)
C4_ReconnectPolicy ==
    /\ auto_connects["explicit"] = 0
    /\ auto_connects["scoped"] <= drop_log["scoped"]
    /\ (scope_pc = "inside" /\ pending_drops = <<>> /\ pending_reconnects = <<>>
        /\ ~disconnect_called)
          => auto_connects["scoped"] = drop_log["scoped"]

(* C5: connect_with_reconnect removes its disconnect handler on every exit *)
(* path, a failed initial connect() included.                              *)
C5_ScopeCleanup ==
    scope_pc \in {"done", "failed"} => "reconnect" \notin disconnected_handlers

(* C6: disconnected is emitted for a drop iff the drop was not requested:  *)
(* never for the drop of an explicit disconnect(); for an unexpected drop  *)
(* at most once, and once when its callback has run and disconnect() was   *)
(* never called.                                                           *)
C6_EmittedIffUnexpected ==
    /\ emitted["explicit"] = 0
    /\ \A k \in {"scoped", "unscoped"} :
          /\ emitted[k] <= drop_log[k]
          /\ (pending_drops = <<>> /\ ~disconnect_called) => emitted[k] = drop_log[k]

(* C7: codec round trip.  Every valid message of every registered class    *)
(* packs, and unpacking the packet returns an equal message.               *)
C7_RoundTrip ==
    (cmode = "msg" /\ cmsg.cls \in RegisteredIds) =>
        /\ cstage # "input" => cpacked.err = "none"
        /\ cstage = "decoded" => cdecoded = Return(cmsg)

(* C8: a class definition that reuses an id fails and leaves the earlier   *)
(* registration in place.                                                  *)
C8_ReusedIdFails ==
    \A j, k \in 1..Len(defined) :
        (j < k /\ defined[j] # NoId /\ defined[j] = defined[k]) =>
            /\ k \in define_error
            /\ _messages[defined[j]] # k

(* C9: unpacking a packet whose first byte is not a registered id raises   *)
(* UnrecognizedMessageError, whatever the payload.                         *)
C9_UnknownId ==
    (cmode = "blob" /\ cstage = "decoded" /\ cblob # <<>>
     /\ cblob[1] \notin RegisteredIds)
        => cdecoded = Raise("UnrecognizedMessageError")

C9_Witness ==
    /\ cmode = "blob" /\ cstage = "decoded"
    /\ Len(cblob) > 1 /\ cblob[1] = 255
    /\ cdecoded.err = "UnrecognizedMessageError"

(* a fixed-layout class: a BasicMessage with fields, the last not a str *)
IsFixedLayout(id) ==
    LET cls == MessageClass(id)
    IN  /\ cls.kind = "Basic"
        /\ cls.ftypes # <<>>
        /\ cls.ftypes[Len(cls.ftypes)] # "str"

(* C10: unpacking a fixed-layout message from a payload shorter than its   *)
(* layout raises UnpackError.                                              *)
C10_TruncatedPayload ==
    (cmode = "blob" /\ cstage = "decoded" /\ cblob # <<>>
     /\ cblob[1] \in RegisteredIds /\ IsFixedLayout(cblob[1])
     /\ Len(cblob) - 1 < calcsize(MessageClass(cblob[1]).fmt))
        => cdecoded = Raise("UnpackError")

C10_Witness ==
    /\ cmode = "blob" /\ cstage = "decoded"
    /\ cblob # <<>> /\ cblob[1] = 2 /\ Len(cblob) = 21 /\ cblob[2] = 1
    /\ cdecoded.err = "UnpackError"

(* the payload lengths a class's shape admits: exactly the layout for a    *)
(* fixed layout, nothing for an empty class, at least the fixed prefix     *)
(* before a trailing str                                                   *)
PayloadLengthOk(id, n) ==
    LET cls == MessageClass(id)
    IN  CASE cls.kind = "Empty" -> n = 0
          [] cls.kind = "Str" -> TRUE
          [] cls.ftypes # <<>> /\ cls.ftypes[Len(cls.ftypes)] = "str" -> n >= calcsize(cls.fmt)
          [] OTHER -> n = calcsize(cls.fmt)

(* C11: a payload whose length the class's shape does not admit is never   *)
(* unpacked into a message: unpack raises UnpackError.                     *)
C11_PayloadLengthExact ==
    (cmode = "blob" /\ cstage = "decoded" /\ cblob # <<>>
     /\ cblob[1] \in RegisteredIds
     /\ ~PayloadLengthOk(cblob[1], Len(cblob) - 1))
        => cdecoded = Raise("UnpackError")

IsEnumType(t) ==
    t \in {"RollState_State", "BatteryState", "DesignAndColor", "RequestMode", "OkCancel"}

(* C12: unpack never returns a message with an enum-typed field whose      *)
(* value is outside the enum; such a packet raises UnpackError.            *)
C12_EnumValidated ==
    (cmode = "blob" /\ cstage = "decoded" /\ cdecoded.err # "UnpackError"
     /\ cblob # <<>> /\ cblob[1] \in RegisteredIds)
        => /\ cdecoded.err = "none"
           /\ LET m == cdecoded.msg
                  ftypes == MessageClass(m.cls).ftypes
              IN  \A i \in 1..Len(ftypes) :
                     IsEnumType(ftypes[i]) =>
                         (m.fields[i].hi = 0 /\ m.fields[i].n \in 0..EnumMax(ftypes[i]))

(* C13: packing or sending a message of a class that has no id fails with  *)
(* AbstractMessageGivenError and nothing is written to the transport.      *)
C13_AbstractMessage ==
    (cmode \in {"msg", "send"} /\ cstage # "input" /\ cmsg \in AbstractMessages)
        => /\ cpacked = [err |-> "AbstractMessageGivenError", bytes |-> <<>>]
           /\ wire = <<>>

(* a packet that unpacks into a message of a class of nat20/messages.py *)
Decodes(packet) ==
    /\ packet # <<>>
    /\ packet[1] \in RegisteredIds
    /\ cls_struct_unpack(packet[1], Tail(packet)).err = "none"

(* C14: a notification whose packet does not decode is dropped: nothing is *)
(* raised out of _recv_notify, no waiter is resolved, no subscriber is     *)
(* invoked and the tables stay as they are; a packet that decodes is       *)
(* dispatched, whatever was dropped before it.                             *)
C14_DecodeFailureDropped ==
    [][recv_log'.n # recv_log.n =>
         IF Decodes(recv_log'.packet)
         THEN recv_log'.outcome = "dispatched"
         ELSE /\ recv_log'.outcome = "dropped"
              /\ UNCHANGED <<_wait_queue, _message_handlers, fut_state,
                             fut_result, invoked>>]_vars

(* C15: a write that fails ends _send_and_wait with the error: a caller    *)
(* that leaves the write without the write having been done, and without   *)
(* being cancelled, has raised; it never waits and never returns a message. *)
C15_WriteFailurePropagates ==
    /\ [](\A c \in Callers : caller_pc[c] = "raised" => caller_result[c] = NoMessage)
    /\ [][\A c \in Callers :
            (caller_pc[c] = "writing" /\ caller_pc'[c] # "writing"
             /\ written'[c] = written[c] /\ caller_pc'[c] # "cancelled")
                => caller_pc'[c] = "raised"]_vars
    /\ [][\A c \in Callers : caller_pc[c] = "raised" => caller_pc'[c] = "raised"]_vars

C15_Witness ==
    \E c \in Callers :
        /\ caller_pc[c] = "raised" /\ written[c] = 0
        /\ \E t \in MsgTypes : c \in Range(registered[t])

(***************************************************************************)
(* C16: scan filter, on the advertisements whose blobs parse.              *)
(* scan_for_dice produces a summary for an observed advertisement if and   *)
(* only if the advertisement carries both the manufacturer-data key and    *)
(* the info service's data and its blobs have the advertised layout (5     *)
(* and 8 bytes, design and roll_state members of their enumerations): the  *)
(* summaries produced so far, yielded or waiting in the queue, are the     *)
(* summaries of exactly those advertisements, in the order observed.       *)
(***************************************************************************)
C16_ScanFilterParsed ==
    LET matching == SelectSeq(scan_seen,
                        LAMBDA ad : /\ ad.has_m /\ ad.has_s
                                    /\ Len(ad.mdata) = 5 /\ Len(ad.sdata) = 8
                                    /\ ad.mdata[2] <= 12 /\ ad.mdata[3] <= 4)
    IN  scan_yielded \o scan_q =
            [i \in 1..Len(matching) |->
                ScanResult_construct(matching[i].mdata, matching[i].sdata).sr]

(* C16 as stated: one summary for every observed advertisement with both   *)
(* keys, whatever its blobs hold                                           *)
C16_ScanFilter ==
    Len(scan_yielded \o scan_q) =
        Len(SelectSeq(scan_seen, LAMBDA ad : ad.has_m /\ ad.has_s))

(* a round of one non-matching and one matching advertisement, the         *)
(* matching one's summary yielded                                          *)
C16_Witness ==
    /\ Len(scan_seen) = 2
    /\ ~scan_seen[1].has_m /\ ~scan_seen[1].has_s
    /\ scan_seen[2].has_m /\ scan_seen[2].has_s
    /\ Len(scan_yielded) = 1
    /\ scan_yielded[1].led_count = PyInt(20)

(***************************************************************************)
(* C17: advertisement parsing, on the blobs whose design and roll_state    *)
(* bytes are members of their enumerations.  For a 5-byte manufacturer     *)
(* blob and an 8-byte service blob the summary repeats led_count, design,  *)
(* roll_state and face, batt_state is bit 7 of batt, batt_level its low 7  *)
(* bits, pixel_id the first little-endian uint32, build_timestamp the      *)
(* instant of the second; 14 0b 01 0a 48 / 5a 8a f0 06 17 87 88 64 gives   *)
(* 20, 11, OnFace, 10, 72 not charging, 0x06f08a5a, 0x64888717.            *)
(***************************************************************************)
C17_AdvertParsed ==
    LET m == adv.mdata
        s == adv.sdata
    IN  /\ (adv_result # NoSummary /\ Len(m) = 5 /\ Len(s) = 8 /\ m[2] <= 12 /\ m[3] <= 4) =>
              /\ adv_result.err = "none"
              /\ adv_result.sr =
                    [led_count |-> PyInt(m[1]),
                     design_and_color |-> PyInt(m[2]),
                     roll_state |-> PyInt(m[3]),
                     roll_face |-> PyInt(m[4]),
                     batt_state |-> PyInt(IF m[5] >= 128 THEN 1 ELSE 0),
                     batt_level |-> PyInt(IF m[5] >= 128 THEN m[5] - 128 ELSE m[5]),
                     pixel_id |-> PyBig(s[4] \div 128,
                                        s[1] + 256 * s[2] + 65536 * s[3] + 16777216 * (s[4] % 128)),
                     build_timestamp |-> PyDatetime(s[8] \div 128,
                                        s[5] + 256 * s[6] + 65536 * s[7] + 16777216 * (s[8] % 128))]
        /\ (adv_result # NoSummary /\ m = <<20, 11, 1, 10, 72>>
                /\ s = <<90, 138, 240, 6, 23, 135, 136, 100>>) =>
              /\ adv_result.sr.batt_level = PyInt(72)
              /\ adv_result.sr.batt_state = PyInt(0)
              /\ adv_result.sr.pixel_id = PyInt(116427354)
              /\ adv_result.sr.build_timestamp = PyDatetime(0, 1686669079)

(* C17 as stated: the same for every 5-byte and 8-byte pair of blobs *)
C17_AdvertParsedEveryBlob ==
    (adv_result # NoSummary /\ Len(adv.mdata) = 5 /\ Len(adv.sdata) = 8) =>
        /\ adv_result.err = "none"
        /\ adv_result.sr.design_and_color = PyInt(adv.mdata[2])
        /\ adv_result.sr.roll_state = PyInt(adv.mdata[3])

C17_Witness ==
    /\ adv.mdata = <<20, 11, 1, 10, 72>>
    /\ adv.sdata = <<90, 138, 240, 6, 23, 135, 136, 100>>
    /\ adv_result.err = "none"
    /\ adv_result.sr.led_count = PyInt(20)

(***************************************************************************)
(* C18: scan teardown.  The scan started for a call of scan_for_dice is    *)
(* never stopped while the consumer is still iterating, is never stopped   *)
(* twice, has been stopped once when the generator is closed, and once     *)
(* the consumer has left the loop (break, error, cancellation) the scan    *)
(* is stopped in the end.                                                  *)
(***************************************************************************)
C18_ScanTeardown ==
    /\ [](scan_pc \in {"waiting", "body"} => scan_stops = 0)
    /\ [](scan_stops <= scan_starts /\ scan_starts <= 1)
    /\ [](scan_pc = "closed" => scan_stops = 1)
    /\ (scan_exit # "none") ~> (scan_stops = 1)

C18_Witness ==
    /\ scan_exit = "break"
    /\ scan_pc = "closed"
    /\ scan_stops = 1
    /\ scan_yielded # <<>>

(***************************************************************************)
(* C19: blink sentinel.  For every requested duration, blink with the      *)
(* infinite count sends a Blink command with count = 1 and loop = 1, and   *)
(* blink with a finite count n sends one with count = n and loop = 0       *)
(* (the transport accepting the write).                                    *)
(***************************************************************************)
C19_BlinkSentinel ==
    \A a \in BlinkArgs, ms \in BlinkDurationsMs :
        (/\ cmode = "send" /\ cstage = "sent"
         /\ cmsg = Pixel_blink(a, ms)
         /\ cpacked.err # "BleakError") =>
            /\ Len(wire) = 1
            /\ Len(wire[1]) = 14
            /\ wire[1][1] = 29
            /\ wire[1][2] = (IF a.inf THEN 1 ELSE a.n)
            /\ wire[1][14] = (IF a.inf THEN 1 ELSE 0)

(***************************************************************************)
(* C20: who_are_you.  At the step where who_are_you returns, one WhoAreYou *)
(* request has been sent, every cached field has the value of the IAmADie  *)
(* response, and one data_changed notification is emitted whose set names  *)
(* every cached field that was refreshed.                                  *)
(***************************************************************************)
C20_WhoAreYou ==
    [][(pixel_pc = "who_waiting" /\ pixel_pc' = "done") =>
        /\ pixel_sent' = <<(<<1>>)>>
        /\ cache' = [led_count |-> pixel_resp'.fields[1],
                     design_and_color |-> pixel_resp'.fields[2],
                     pixel_id |-> pixel_resp'.fields[4],
                     build_timestamp |-> pixel_resp'.fields[6],
                     roll_state |-> pixel_resp'.fields[7],
                     roll_face |-> pixel_resp'.fields[8],
                     batt_level |-> pixel_resp'.fields[9],
                     batt_state |-> pixel_resp'.fields[10]]
        /\ data_changed' = Append(data_changed,
                              {"led_count", "build_timestamp", "design_and_color",
                               "pixel_id", "roll_state", "roll_face", "batt_state",
                               "batt_level"})]_vars

C22_ResponderAtMostOnce ==
    \A p \in 1..Len(prompt_acks) : Len(prompt_acks[p]) <= 1

(***************************************************************************)
(* C23: set_name.  The cached name changes only at the step where the      *)
(* SetNameAck is received: it is the old name while the request is written *)
(* and awaited, becomes the requested name at the acknowledgement together *)
(* with one data_changed event naming 'name', and is still the old name    *)
(* when the write failed or the wait was cancelled.                        *)
(***************************************************************************)
C23_SetNameOnAck ==
    /\ [][(pixel_pc # "none" /\ pixel_name' # pixel_name) =>
             (pixel_pc = "name_waiting" /\ pixel_resp'.cls = 52)]_vars
    /\ [][(pixel_pc = "name_waiting" /\ pixel_pc' = "done") =>
             /\ pixel_name' = new_name
             /\ data_changed' = Append(data_changed, {"name"})
             /\ pixel_sent' = <<(<<51>> \o utf8_encode(new_name).bytes)>>]_vars
    /\ [](pixel_pc \in {"idle", "name_waiting", "raised", "cancelled"} =>
             pixel_name = <<70, 114, 97, 110, 99, 105, 115>>)

C23_Witness ==
    /\ pixel_pc = "done"
    /\ pixel_resp.cls = 52
    /\ pixel_name = <<66, 111, 98>>
    /\ data_changed = <<{"name"}>>

(***************************************************************************)
(* C24: get_roll_state and get_battery_level.  At the step where the call  *)
(* returns, one request has been sent (RequestRollState, 0x17, or          *)
(* RequestBatteryLevel, 0x21), exactly the two corresponding cached fields *)
(* have the response's values and every other cached field is unchanged,   *)
(* one data_changed event naming the two fields is emitted, and the        *)
(* response is returned.                                                   *)
(***************************************************************************)
C24_GetSingleValue ==
    /\ [][(pixel_pc = "roll_waiting" /\ pixel_pc' = "done") =>
             /\ pixel_sent' = <<(<<23>>)>>
             /\ pixel_resp'.cls = 3
             /\ cache' = [cache EXCEPT !.roll_state = pixel_resp'.fields[1],
                                       !.roll_face = pixel_resp'.fields[2]]
             /\ data_changed' = Append(data_changed, {"roll_state", "roll_face"})
             /\ pixel_ret' = pixel_resp']_vars
    /\ [][(pixel_pc = "batt_waiting" /\ pixel_pc' = "done") =>
             /\ pixel_sent' = <<(<<33>>)>>
             /\ pixel_resp'.cls = 34
             /\ cache' = [cache EXCEPT !.batt_level = pixel_resp'.fields[1],
                                       !.batt_state = pixel_resp'.fields[2]]
             /\ data_changed' = Append(data_changed, {"batt_state", "batt_level"})
             /\ pixel_ret' = pixel_resp']_vars

C24_Witness ==
    /\ pixel_pc = "done"
    /\ pixel_ret.cls = 34
    /\ pixel_ret.fields = <<PyInt(100), PyInt(2)>>
    /\ cache.batt_state = PyInt(2)
    /\ cache.roll_state # PyInt(2)

(***************************************************************************)
(* C25: independent sessions.  With two facades hydrated from two          *)
(* summaries, after any interleaving of waits and inbound messages a       *)
(* message that came in on one link has resolved only waiters of that      *)
(* link's facade, has invoked only that facade's subscriber, and a         *)
(* facade's cached roll state was set only by a message of its own link;   *)
(* the waiters queued in a facade's table are its own.                     *)
(***************************************************************************)
C25_IndependentSessions ==
    /\ \A g \in sessions.got : g.waiter[1] = g.link
    /\ \A r \in sessions.ran : r.handler = r.link
    /\ \A j \in Facades : sessions.roll[j].link \in {0, j}
    /\ \A j \in Facades : \A k \in 1..Len(sessions.wq[j]) : sessions.wq[j][k][1] = j

C25_Witness ==
    /\ sessions.alive = Facades
    /\ \E g \in sessions.got : g.link = 1
    /\ Len(sessions.wq[1]) = 1
    /\ sessions.roll[2] = [v |-> 3, link |-> 2]
    /\ sessions.roll[1].link = 0


(* C26: no automatic retry of requests.  Every call makes one transport    *)
(* write: a caller past the write has written once, a caller whose write   *)
(* raised has written nothing, and no caller ever writes twice.  A step in *)
(* which the reconnect handler calls connect() writes nothing and moves no *)
(* caller, whether its request is pending or has failed.                   *)
C26_NoAutomaticRetry ==
    /\ [](\A c \in Callers :
            /\ written[c] <= 1
            /\ caller_pc[c] \in {"waiting", "returned"} => written[c] = 1
            /\ caller_pc[c] \in {"idle", "writing", "raised"} => written[c] = 0)
    /\ [][auto_connects' # auto_connects =>
            /\ written' = written
            /\ caller_pc' = caller_pc
            /\ _wait_queue' = _wait_queue]_vars

(* a request pending and a request failed, after an automatic reconnect *)
C26_Witness ==
    /\ auto_connects["scoped"] >= 1
    /\ conn = "connected"
    /\ \E c, d \in Callers :
          /\ caller_pc[c] = "raised"
          /\ caller_pc[d] = "waiting" /\ written[d] = 1


(* C27: send_and_wait queues its waiter before it writes.  A caller whose  *)
(* write is in progress is registered for its response type, and its       *)
(* future is queued or already resolved.  A message of that type arriving  *)
(* while the write is in progress, the caller's future being the oldest    *)
(* queued, resolves that future with the message and reaches no            *)
(* subscriber; the caller itself is not run by the dispatch.               *)
C27_WaiterBeforeWrite ==
    /\ [](\A c \in Callers : caller_pc[c] = "writing" =>
            \E t \in MsgTypes :
                /\ c \in Range(registered[t])
                /\ c \in Range(_wait_queue[t]) \/ fut_state[c] = "done")
    /\ [][\A t \in MsgTypes, c \in Callers :
            (/\ arrivals' = arrivals + 1
             /\ last_dispatch'.msg.cls = t
             /\ caller_pc[c] = "writing"
             /\ _wait_queue[t] # <<>>
             /\ Head(_wait_queue[t]) = c)
            => /\ fut_state'[c] = "done"
               /\ fut_result'[c] = last_dispatch'.msg
               /\ invoked' = invoked
               /\ caller_pc'[c] = "writing"]_vars

(* the response arrived before the write returned, with a subscriber of    *)
(* its type registered, and went to the caller                             *)
C27_Witness ==
    \E c \in Callers, t \in MsgTypes :
        /\ caller_pc[c] = "writing"
        /\ fut_state[c] = "done"
        /\ fut_result[c].cls = t
        /\ _message_handlers[t] # <<>>
        /\ invoked = {}


(* C28: dispatch never blocks on application logic.  A step that handles   *)
(* an inbound message runs no caller, and every subscriber invocation it   *)
(* starts is a unit of work of its own, not a call made inside the         *)
(* dispatch.                                                               *)
C28_DispatchNeverBlocks ==
    [][arrivals' = arrivals + 1 =>
          /\ caller_pc' = caller_pc
          /\ caller_result' = caller_result
          /\ \A inv \in invoked' \ invoked : _call_or_task(inv[1]) = "task"]_vars


C30_QueueOrderDelivery ==
    /\ [][\A t \in MsgTypes, c, d \in Callers :
            (/\ arrivals' = arrivals + 1
             /\ last_dispatch'.msg.cls = t
             /\ Len(_wait_queue[t]) >= 2
             /\ _wait_queue[t][1] = c /\ _wait_queue[t][2] = d
             /\ caller_pc[c] \in {"writing", "waiting"} /\ fut_state[c] = "pending"
             /\ caller_pc[d] \in {"writing", "waiting"} /\ fut_state[d] = "pending")
            => /\ fut_state'[c] = "done"
               /\ fut_result'[c] = last_dispatch'.msg
               /\ fut_state'[d] = "pending"
               /\ _wait_queue'[t] = Tail(_wait_queue[t])
               /\ invoked' = invoked]_vars
    /\ [](\A t \in MsgTypes : \A i, j \in 1..Len(registered[t]) :
            (/\ i < j
             /\ fut_state[registered[t][i]] = "done"
             /\ fut_state[registered[t][j]] = "done")
            => fut_result[registered[t][i]].serial < fut_result[registered[t][j]].serial)

(* the first message went to the caller queued first while only the        *)
(* request of the caller queued second had been written                    *)
C30_Witness ==
    \E t \in MsgTypes, c, d \in Callers :
        /\ registered[t] = <<c, d>>
        /\ caller_pc[c] = "writing" /\ written[c] = 0
        /\ caller_pc[d] = "waiting" /\ written[d] = 1
        /\ fut_state[c] = "done" /\ fut_result[c].serial = 1
        /\ fut_state[d] = "pending"
        /\ _wait_queue[t] = <<d>>


(* C31: no orphan waiters.  Every future in a wait queue belongs to a      *)
(* caller that is suspended in _wait or in _send_and_wait; a caller whose  *)
(* _send_and_wait raised has no future queued.                             *)
C31_NoOrphanWaiters ==
    \A t \in MsgTypes : \A c \in Range(_wait_queue[t]) :
        caller_pc[c] \in {"writing", "waiting"}


(* C32: cache freshness.  Once every resolved caller has run again, the    *)
(* cached fields of a kind are those of the message of the kind received   *)
(* last, by whichever path each message was handled.                       *)
C32_CacheFresh ==
    \A k \in Kinds :
        (get_pc[k] # "resolved" /\ latest[k] # <<>>) => fresh[k] = latest[k]


(* C33: response liveness.  The i-th caller registered for a type is       *)
(* served by the i-th message of the type that met a waiter, that is, with *)
(* j waiters ahead of it, by the (j+1)-th message arriving after it        *)
(* queued: then its future holds that message and, once run, it returns    *)
(* it.  Until that message arrives its future is unresolved and it has not *)
(* returned; a drop, a disconnect or a reconnect resolves and fails no     *)
(* future and moves no caller.                                             *)
C33_ResponseLiveness ==
    /\ [](\A t \in MsgTypes : \A i \in 1..Len(registered[t]) :
            LET c == registered[t][i]
            IN  IF i <= Len(waiter_msgs[t])
                THEN /\ fut_state[c] = "done"
                     /\ fut_result[c] = [cls |-> t, serial |-> waiter_msgs[t][i]]
                     /\ caller_pc[c] = "returned" => caller_result[c] = fut_result[c]
                ELSE /\ fut_state[c] = "pending"
                     /\ caller_pc[c] \in {"writing", "waiting"}
                     /\ _wait_queue[t][i - Len(waiter_msgs[t])] = c)
    /\ [][(conn' # conn \/ _expected_disconnect' # _expected_disconnect
              \/ pending_drops' # pending_drops \/ auto_connects' # auto_connects)
          => UNCHANGED <<fut_state, fut_result, caller_pc, _wait_queue>>]_vars
    /\ \A c \in Callers :
          (caller_pc[c] = "waiting" /\ fut_state[c] = "done")
              ~> (caller_pc[c] = "returned")

(* the second caller queued returned the second message, after a drop and  *)
(* an automatic reconnect                                                  *)
C33_Witness ==
    /\ registered["RollState"] = <<1, 2>>
    /\ caller_pc[2] = "returned"
    /\ caller_result[2] = [cls |-> "RollState", serial |-> 2]
    /\ auto_connects["scoped"] >= 1


(* C34: type isolation of dispatch.  A step that dispatches a message of   *)
(* one type leaves the wait queue of every other type and every subscriber *)
(* list unchanged and invokes only subscribers registered for the          *)
(* message's own type; a resolved waiter holds a message of the type it    *)
(* was registered for.                                                     *)
C34_TypeIsolation ==
    /\ [][arrivals' = arrivals + 1 =>
            LET u == last_dispatch'.msg.cls
            IN  /\ \A t \in MsgTypes \ {u} : _wait_queue'[t] = _wait_queue[t]
                /\ _message_handlers' = _message_handlers
                /\ \A inv \in invoked' \ invoked :
                      /\ inv[1] \in Range(_message_handlers[u])
                      /\ inv[2] = last_dispatch'.msg.serial]_vars
    /\ [](\A t \in MsgTypes : \A c \in Range(registered[t]) :
            fut_state[c] = "done" => fut_result[c].cls = t)

(* a BatteryLevel went to its subscriber while a RollState waiter stayed   *)
(* queued and the RollState subscriber was not called                      *)
C34_Witness ==
    /\ last_dispatch.msg.cls = "BatteryLevel"
    /\ _wait_queue["RollState"] # <<>>
    /\ _message_handlers["RollState"] # <<>>
    /\ \E h \in Range(_message_handlers["BatteryLevel"]) :
          <<h, last_dispatch.msg.serial>> \in invoked
    /\ \A c \in Range(_wait_queue["RollState"]) : fut_state[c] = "pending"


(* C35: the fan-out is complete.  Every subscriber registered for the type *)
(* of the last message no waiter claimed was invoked with that message,    *)
(* whether or not one of them raised.                                      *)
C35_FanOutComplete ==
    LET d == last_dispatch
    IN  (d.msg.serial # 0 /\ d.queue_before = <<>>) =>
            \A i \in 1..Len(d.handlers_before) :
                <<d.handlers_before[i], d.msg.serial>> \in invoked


(* C36: scan delivery, for the advertisements that carry both keys and     *)
(* whose blobs parse.  For each call the summaries yielded so far followed *)
(* by those waiting in its queue are the summaries of exactly those        *)
(* advertisements its own scanner observed, one each, in the order         *)
(* observed, however many are observed between two iterations; and while   *)
(* the consumer keeps iterating every summary produced is yielded.         *)
C36_ScanDelivery ==
    /\ [](\A i \in ScanCalls :
            LET produced == SelectSeq(scans.seen[i],
                                LAMBDA ad : /\ Qualifies(ad)
                                            /\ ScanResult_construct(ad.mdata, ad.sdata).err = "none")
            IN  scans.yielded[i] \o scans.q[i] =
                    [k \in 1..Len(produced) |->
                        [by |-> i,
                         sr |-> ScanResult_construct(produced[k].mdata, produced[k].sdata).sr]])
    /\ \A i \in ScanCalls : \A m \in 1..MaxObserved :
          (Len(scans.yielded[i]) + Len(scans.q[i]) >= m) ~> (Len(scans.yielded[i]) >= m)

(* C36 as stated: one summary for every observed advertisement with both   *)
(* keys                                                                    *)
C36_ScanDeliveryEveryQualifying ==
    \A i \in ScanCalls :
        Len(scans.yielded[i]) + Len(scans.q[i]) =
            Len(SelectSeq(scans.seen[i], LAMBDA ad : Qualifies(ad)))

(* a slow consumer: two summaries observed by call 1 before its second     *)
(* iteration, one yielded and one waiting, while call 2 yielded its own    *)
C36_Witness ==
    /\ Len(scans.yielded[1]) = 1 /\ Len(scans.q[1]) = 1
    /\ scans.pc[1] = "body"
    /\ Len(scans.yielded[2]) = 1
    /\ scans.yielded[2][1].by = 2


(* C37: the decode errors are total.  Whatever the buffer, unpack returns  *)
(* a message of the class registered under the buffer's first byte or      *)
(* raises UnrecognizedMessageError or UnpackError, and nothing else.       *)
C37_DecodeErrorsTotal ==
    (cmode = "blob" /\ cstage = "decoded") =>
        /\ cdecoded.err \in {"none", "UnrecognizedMessageError", "UnpackError"}
        /\ cdecoded.err = "none" => (cblob # <<>> /\ cdecoded.msg.cls = cblob[1])


(* C38: blink duration range.  For a finite count n and d milliseconds a   *)
(* loop: when n <= 255 and n * d <= 65535 the packet written carries n in  *)
(* its count byte and n * d in its little-endian 16-bit duration; when     *)
(* not, the call has raised, nothing was written and no BlinkAck waiter    *)
(* is queued.                                                              *)
C38_BlinkDurationRange ==
    LET n == blink_args.a.n
        total == blink_args.a.n * blink_args.ms
    IN  (~blink_args.a.inf /\ blink_pc \notin {"off", "input"}) =>
            IF n <= 255 /\ total <= 65535
            THEN /\ blink_err \in {"none", "BleakError"}
                 /\ blink_wire # <<>> =>
                       /\ blink_wire[1][2] = n
                       /\ blink_wire[1][3] + 256 * blink_wire[1][4] = total
            ELSE /\ blink_pc = "raised"
                 /\ blink_err \notin {"none", "BleakError"}
                 /\ blink_wire = <<>>
                 /\ blink_queue = <<>>

====
